---------------------------- MODULE Spec2Model ----------------------------
(***************************************************************************)
(* Authorization and audit core of the platform event query service:       *)
(* the Credential Resolver (mcp/auth.ts), the Entitlement Evaluator         *)
(* (types/index.ts), the Audit Recorder (services/audit.ts) and the Query   *)
(* Gate (services/events.ts).                                               *)
(*                                                                          *)
(* The repository holds two definitions of the Query Gate: the one that     *)
(* audits (src/unnamed/part_004) and a second one, printed after the Audit  *)
(* Recorder in src/src/services/audit.ts:126-356.  Both are modelled; the   *)
(* operators and actions of the second carry the suffix 0.                  *)
(*                                                                          *)
(* Conventions.  A JavaScript string that the code inspects character by    *)
(* character (a title, a query) is a sequence of one-character strings.     *)
(* An optional value (T | undefined | null) is a set: {} when absent, {v}   *)
(* when present.  A Date is a natural number of clock ticks.                *)
(***************************************************************************)
EXTENDS Integers, Sequences, FiniteSets, TLC

\* ------------------------------------------------------------------ bounds
MaxAuth == 2      \* longest authorizedServices array drawn in InitGate
MaxStore == 3     \* most Event Records in a store drawn in InitGate
MaxLimit == 2     \* largest limit passed to a Query Gate operation
MaxCalls == 2     \* tool calls of one behaviour of Spec
MaxTime == 2      \* last tick of the clock
MaxIssued == 1    \* createApiToken calls of one behaviour of SpecTokens
MaxRetries == 3    \* largest maxRetries handed to retry
MaxText == 2      \* longest title or query text drawn in InitLike

\* ---------------------------------------------------------------- options
None == {}
Some(v) == {v}
IsSome(o) == o # {}
The(o) == CHOOSE v \in o : TRUE

\* ----------------------------------------------------------------- domains
Tenants == {"svc-a", "svc-b"}
Wildcard == "*"
ServiceNames == Tenants \cup {Wildcard}
EventTypes == {"incident", "deployment"}
Severities == {"critical", "info"}
Vectors == {"v1", "v2"}

\* Array.prototype.includes: a left-to-right scan with strict equality.
RECURSIVE Includes(_, _)
Includes(arr, x) ==
  IF arr = <<>> THEN FALSE
  ELSE IF Head(arr) = x THEN TRUE
  ELSE Includes(Tail(arr), x)

\* ---------------------------------------------------- Entitlement Evaluator
\* Variant: the wildcard is honoured only as the first member.
isAuthorizedForServiceFirstOnly(context, serviceId) ==
  IF context.authorizedServices # <<>>
     /\ Head(context.authorizedServices) = Wildcard THEN TRUE
  ELSE Includes(context.authorizedServices, serviceId)
isAuthorizedForService(context, serviceId) ==
  IF Includes(context.authorizedServices, Wildcard) THEN TRUE
  ELSE Includes(context.authorizedServices, serviceId)

\* Variant: the sentinel is returned only for the array ['*'].
getAuthorizedServiceFilterSoleWildcard(context) ==
  IF context.authorizedServices = <<Wildcard>>
  THEN [star |-> TRUE, list |-> <<>>]
  ELSE [star |-> FALSE, list |-> context.authorizedServices]
\* string[] | '*' : the sentinel is the string, the list is the caller's array.
getAuthorizedServiceFilter(context) ==
  IF Includes(context.authorizedServices, Wildcard)
  THEN [star |-> TRUE, list |-> <<>>]
  ELSE [star |-> FALSE, list |-> context.authorizedServices]

\* ------------------------------------------------------------- Event Records
\* The rows the stores are drawn from (db/schema.ts events; id is the primary
\* key).  Two tenants, rows with and without an embedding, with and without a
\* description, equal and different occurredAt.
EventCatalogue ==
  { [id |-> "e1", serviceId |-> "svc-a", eventType |-> "incident",
     severity |-> "critical", title |-> <<"a", "b">>, description |-> None,
     occurredAt |-> 2, embedding |-> Some("v1")],
    [id |-> "e2", serviceId |-> "svc-b", eventType |-> "incident",
     severity |-> "critical", title |-> <<"A", "b">>,
     description |-> Some(<<"a", "%">>), occurredAt |-> 2,
     embedding |-> Some("v2")],
    [id |-> "e3", serviceId |-> "svc-a", eventType |-> "deployment",
     severity |-> "info", title |-> <<"b", "_">>,
     description |-> Some(<<"a">>), occurredAt |-> 1, embedding |-> None],
    [id |-> "e4", serviceId |-> "svc-b", eventType |-> "deployment",
     severity |-> "info", title |-> <<"b">>, description |-> None,
     occurredAt |-> 1, embedding |-> Some("v1")] }
EventIds == {e.id : e \in EventCatalogue} \cup {"e9"}
Stores == {S \in SUBSET EventCatalogue : Cardinality(S) <= MaxStore}

\* The columns every query of the gate selects.
Row(e) ==
  [id |-> e.id, serviceId |-> e.serviceId, eventType |-> e.eventType,
   severity |-> e.severity, title |-> e.title, description |-> e.description,
   occurredAt |-> e.occurredAt]

\* Cosine distance (pgvector <=>) between a stored and a query vector.
CosineDistance(v, q) == IF v = q THEN 0 ELSE 1
ScoredRow(e, q) ==
  [id |-> e.id, serviceId |-> e.serviceId, eventType |-> e.eventType,
   severity |-> e.severity, title |-> e.title, description |-> e.description,
   occurredAt |-> e.occurredAt,
   score |-> Some(1 - CosineDistance(The(e.embedding), q))]

\* JavaScript truthiness of an optional string: absent and '' are falsy.
Truthy(o) == IsSome(o) /\ The(o) # ""

\* ------------------------------------------------------------ LIKE patterns
Backslash == "\\"
\* Variant: the backslash is left as it is, % and _ are escaped.
RECURSIVE escapeLikePatternNoBackslash(_)
escapeLikePatternNoBackslash(pattern) ==
  IF pattern = <<>> THEN <<>>
  ELSE LET c == Head(pattern)
           rest == escapeLikePatternNoBackslash(Tail(pattern))
       IN  IF c = "%" \/ c = "_"
           THEN <<Backslash, c>> \o rest
           ELSE <<c>> \o rest

RECURSIVE escapeLikePattern(_)
escapeLikePattern(pattern) ==
  IF pattern = <<>> THEN <<>>
  ELSE LET c == Head(pattern)
           rest == escapeLikePattern(Tail(pattern))
       IN  IF c = Backslash \/ c = "%" \/ c = "_"
           THEN <<Backslash, c>> \o rest
           ELSE <<c>> \o rest

\* ILIKE folds case on both sides.
LowerChar(c) == IF c = "A" THEN "a" ELSE IF c = "B" THEN "b" ELSE c
Lower(s) == [i \in 1..Len(s) |-> LowerChar(s[i])]

\* PostgreSQL LIKE with the default escape character: % any sequence, _ any one
\* character, \x the character x.
RECURSIVE LikeMatch(_, _)
LikeMatch(text, pat) ==
  IF pat = <<>> THEN text = <<>>
  ELSE IF Head(pat) = "%"
    THEN LikeMatch(text, Tail(pat))
         \/ (text # <<>> /\ LikeMatch(Tail(text), pat))
  ELSE IF Head(pat) = "_"
    THEN text # <<>> /\ LikeMatch(Tail(text), Tail(pat))
  ELSE IF Head(pat) = Backslash
    THEN /\ Len(pat) >= 2
         /\ text # <<>>
         /\ Head(text) = pat[2]
         /\ LikeMatch(Tail(text), Tail(Tail(pat)))
  ELSE text # <<>> /\ Head(text) = Head(pat)
       /\ LikeMatch(Tail(text), Tail(pat))
ilike(column, pat) ==
  IsSome(column) /\ LikeMatch(Lower(The(column)), Lower(pat))

\* ---------------------------------------------------------- query building
Min(a, b) == IF a <= b THEN a ELSE b
Range(f) == {f[i] : i \in DOMAIN f}

\* ORDER BY Key ascending LIMIT k over the rows S: every answer the storage
\* engine may give (rows with equal keys come in any order).
OrderedLimit(S, Key(_), k) ==
  LET n == Min(k, Cardinality(S))
  IN  { r \in [1..n -> S] :
          /\ \A i, j \in 1..n : i < j => r[i] # r[j] /\ Key(r[i]) <= Key(r[j])
          /\ \A x \in S \ Range(r) : \A i \in 1..n : Key(r[i]) <= Key(x) }
\* Variant: the oldest rows come first.
RecencyOldestFirst(row) == row.occurredAt
Recency(row) == 0 - row.occurredAt
Distance(row) == 1 - The(row.score)

\* ------------------------------------------------------------ Audit Recorder
\* auditLog: the timestamp is taken at emission; the caller's fields win over
\* timestamp and type as they are spread last.
\* Variant: every entry carries the time the process started.
auditLogStartupStamp(entry, clock) ==
  entry @@ [type |-> "AUDIT", timestamp |-> 1]
auditLog(entry, clock) ==
  entry @@ [type |-> "AUDIT", timestamp |-> clock]

ActionCode(action) ==
  CASE action = "search" -> "event_access_search"
    [] action = "get_details" -> "event_access_get_details"
    [] action = "get_timeline" -> "event_access_get_timeline"
    [] action = "get_impact_summary" -> "event_access_get_impact_summary"

auditEventAccess(callerId, callerName, action, resultCount, serviceId, metadata) ==
  [level |-> "INFO", action |-> ActionCode(action), callerId |-> callerId,
   callerName |-> callerName, success |-> TRUE, resourceType |-> Some("event"),
   resourceId |-> None, serviceId |-> serviceId,
   message |-> <<"Accessed ", ToString(resultCount), " event(s)">>,
   metadata |-> metadata]

auditAuthFailure(callerId, reason, metadata) ==
  [level |-> "WARNING", action |-> "authentication_failure",
   callerId |-> callerId, callerName |-> None, success |-> FALSE,
   resourceType |-> None, resourceId |-> None, serviceId |-> None,
   message |-> <<"Authentication failed: ", reason>>, metadata |-> metadata]

auditAuthorizationDenied(callerId, callerName, serviceId, action, metadata) ==
  [level |-> "WARNING", action |-> "authorization_denied",
   callerId |-> callerId, callerName |-> callerName, success |-> FALSE,
   resourceType |-> Some("service"), resourceId |-> None,
   serviceId |-> Some(serviceId),
   message |-> <<"Access denied to service: ", serviceId>>,
   metadata |-> metadata]

auditAuthSuccess(callerId, callerName, metadata) ==
  [level |-> "INFO", action |-> "authentication_success",
   callerId |-> callerId, callerName |-> callerName, success |-> TRUE,
   resourceType |-> None, resourceId |-> None, serviceId |-> None,
   message |-> <<"Authentication successful">>, metadata |-> metadata]

\* ----------------------------------------------------------------- outcomes
\* What one call of a Query Gate operation did: how it ended, the value it
\* returned, the storage reads and embedding requests it issued, and the audit
\* entries it handed to auditLog, in order.
Returned(value, reads, embeds, audits) ==
  [status |-> "ok", value |-> value, reads |-> reads, embeds |-> embeds,
   audits |-> audits]
Threw(reads, embeds) ==
  [status |-> "error", value |-> None, reads |-> reads, embeds |-> embeds,
   audits |-> <<>>]

\* ------------------------------------------------- Query Gate (events.ts)
\* The optional filters both search modes share.
OptionalFilters(e, input) ==
  /\ Truthy(input.serviceId) => e.serviceId = The(input.serviceId)
  /\ Truthy(input.eventType) => e.eventType = The(input.eventType)
  /\ Truthy(input.severity) => e.severity = The(input.severity)
  /\ IsSome(input.startDate) => e.occurredAt >= The(input.startDate)
  /\ IsSome(input.endDate) => e.occurredAt <= The(input.endDate)

\* Variant: a caller-supplied serviceId filter stands in for the entitlement
\* filter instead of being added to it.
keywordSearchCallerFilterWins(db, input, context) ==
  LET authorizedFilter == getAuthorizedServiceFilter(context)
      escapedQuery == escapeLikePattern(input.query)
      pat == <<"%">> \o escapedQuery \o <<"%">>
      Where(e) ==
        /\ IF Truthy(input.serviceId) THEN e.serviceId = The(input.serviceId)
           ELSE ~authorizedFilter.star
                  => Includes(authorizedFilter.list, e.serviceId)
        /\ Truthy(input.eventType) => e.eventType = The(input.eventType)
        /\ Truthy(input.severity) => e.severity = The(input.severity)
        /\ IsSome(input.startDate) => e.occurredAt >= The(input.startDate)
        /\ IsSome(input.endDate) => e.occurredAt <= The(input.endDate)
        /\ (ilike(Some(e.title), pat) \/ ilike(e.description, pat))
  IN  IF ~db.up THEN {Threw(1, 0)}
      ELSE { Returned(r, 1, 0, <<>>) :
               r \in OrderedLimit({Row(e) : e \in {x \in db.rows : Where(x)}},
                                  Recency, input.limit) }

\* db is the storage collaborator as this call meets it: its rows, and whether
\* its reads succeed.
keywordSearch(db, input, context) ==
  LET authorizedFilter == getAuthorizedServiceFilter(context)
      escapedQuery == escapeLikePattern(input.query)
      pat == <<"%">> \o escapedQuery \o <<"%">>
      Where(e) ==
        /\ ~authorizedFilter.star => Includes(authorizedFilter.list, e.serviceId)
        /\ OptionalFilters(e, input)
        /\ (ilike(Some(e.title), pat) \/ ilike(e.description, pat))
  IN  IF ~db.up THEN {Threw(1, 0)}
      ELSE { Returned(r, 1, 0, <<>>) :
               r \in OrderedLimit({Row(e) : e \in {x \in db.rows : Where(x)}},
                                  Recency, input.limit) }

\* Variant: a failed embedding request is replaced by a stock vector.
generateEmbeddingStockOnFailure(emb, query) ==
  IF emb.up THEN emb ELSE [up |-> TRUE, vector |-> "v1"]
\* emb is the embedding collaborator as this call meets it.
generateEmbedding(emb, query) == emb

semanticSearch(db, emb, input, context) ==
  LET queryEmbedding == generateEmbedding(emb, input.query)
      authorizedFilter == getAuthorizedServiceFilter(context)
      Where(e) ==
        /\ ~authorizedFilter.star => Includes(authorizedFilter.list, e.serviceId)
        /\ OptionalFilters(e, input)
        /\ IsSome(e.embedding)
  IN  IF ~queryEmbedding.up THEN {Threw(0, 1)}
      ELSE IF ~db.up THEN {Threw(1, 1)}
      ELSE { Returned(r, 1, 1, <<>>) :
               r \in OrderedLimit(
                       {ScoredRow(e, queryEmbedding.vector) :
                          e \in {x \in db.rows : Where(x)}},
                       Distance, input.limit) }

SearchMetadata(input) ==
  Some([query |-> input.query,
        searchType |-> IF input.useSemanticSearch THEN "semantic" ELSE "keyword",
        filters |-> [eventType |-> input.eventType, severity |-> input.severity,
                     startDate |-> input.startDate, endDate |-> input.endDate]])

searchEvents(db, emb, input, context) ==
  LET results == IF input.useSemanticSearch
                 THEN semanticSearch(db, emb, input, context)
                 ELSE keywordSearch(db, input, context)
  IN  { IF o.status = "ok"
        THEN [o EXCEPT !.audits =
                <<auditEventAccess(context.callerId, context.callerName, "search",
                                   Len(o.value), input.serviceId,
                                   SearchMetadata(input))>>]
        ELSE o : o \in results }

\* Variant: the row is returned without the entitlement check.
getEventByIdNoCheck(db, eventId, context) ==
  LET result == {Row(e) : e \in {x \in db.rows : x.id = eventId}}
  IN  IF ~db.up THEN {Threw(1, 0)}
      ELSE IF result = {}
      THEN {Returned(None, 1, 0,
              <<auditEventAccess(context.callerId, context.callerName,
                  "get_details", 0, None,
                  Some([eventId |-> eventId, reason |-> "not_found"]))>>)}
      ELSE {Returned(Some(The(result)), 1, 0,
              <<auditEventAccess(context.callerId, context.callerName,
                  "get_details", 1, Some(The(result).serviceId),
                  Some([eventId |-> eventId,
                        eventType |-> The(result).eventType,
                        severity |-> The(result).severity]))>>)}

getEventById(db, eventId, context) ==
  LET result == {Row(e) : e \in {x \in db.rows : x.id = eventId}}
  IN  IF ~db.up THEN {Threw(1, 0)}
      ELSE IF result = {}
      THEN {Returned(None, 1, 0,
              <<auditEventAccess(context.callerId, context.callerName,
                  "get_details", 0, None,
                  Some([eventId |-> eventId, reason |-> "not_found"]))>>)}
      ELSE LET event == The(result)
               authorizedFilter == getAuthorizedServiceFilter(context)
           IN  IF ~authorizedFilter.star
                  /\ ~Includes(authorizedFilter.list, event.serviceId)
               THEN {Returned(None, 1, 0,
                       <<auditEventAccess(context.callerId, context.callerName,
                           "get_details", 0, Some(event.serviceId),
                           Some([eventId |-> eventId,
                                 reason |-> "unauthorized"]))>>)}
               ELSE {Returned(Some(event), 1, 0,
                       <<auditEventAccess(context.callerId, context.callerName,
                           "get_details", 1, Some(event.serviceId),
                           Some([eventId |-> eventId,
                                 eventType |-> event.eventType,
                                 severity |-> event.severity]))>>)}

\* Variant: the rows are read first and the entitlement is checked afterwards.
getServiceTimelineReadFirst(db, serviceId, startDate, endDate, limit, context) ==
  LET authorizedFilter == getAuthorizedServiceFilter(context)
      Where(e) ==
        /\ e.serviceId = serviceId
        /\ IsSome(startDate) => e.occurredAt >= The(startDate)
        /\ IsSome(endDate) => e.occurredAt <= The(endDate)
  IN  IF ~db.up THEN {Threw(1, 0)}
      ELSE IF ~authorizedFilter.star /\ ~Includes(authorizedFilter.list, serviceId)
      THEN {Returned(<<>>, 1, 0,
              <<auditEventAccess(context.callerId, context.callerName,
                  "get_timeline", 0, Some(serviceId),
                  Some([reason |-> "unauthorized"]))>>)}
      ELSE { Returned(r, 1, 0,
               <<auditEventAccess(context.callerId, context.callerName,
                   "get_timeline", Len(r), Some(serviceId),
                   Some([startDate |-> startDate, endDate |-> endDate,
                         limit |-> limit]))>>) :
               r \in OrderedLimit({Row(e) : e \in {x \in db.rows : Where(x)}},
                                  Recency, limit) }

getServiceTimeline(db, serviceId, startDate, endDate, limit, context) ==
  LET authorizedFilter == getAuthorizedServiceFilter(context)
      Where(e) ==
        /\ e.serviceId = serviceId
        /\ IsSome(startDate) => e.occurredAt >= The(startDate)
        /\ IsSome(endDate) => e.occurredAt <= The(endDate)
  IN  IF ~authorizedFilter.star /\ ~Includes(authorizedFilter.list, serviceId)
      THEN {Returned(<<>>, 0, 0,
              <<auditEventAccess(context.callerId, context.callerName,
                  "get_timeline", 0, Some(serviceId),
                  Some([reason |-> "unauthorized"]))>>)}
      ELSE IF ~db.up THEN {Threw(1, 0)}
      ELSE { Returned(r, 1, 0,
               <<auditEventAccess(context.callerId, context.callerName,
                   "get_timeline", Len(r), Some(serviceId),
                   Some([startDate |-> startDate, endDate |-> endDate,
                         limit |-> limit]))>>) :
               r \in OrderedLimit({Row(e) : e \in {x \in db.rows : Where(x)}},
                                  Recency, limit) }

\* ------------------------------ Query Gate, second definition (audit.ts:126)
\* The pattern is the raw query between two % signs; no audit entry is written.
keywordSearch0(db, input, context) ==
  LET authorizedFilter == getAuthorizedServiceFilter(context)
      pat == <<"%">> \o input.query \o <<"%">>
      Where(e) ==
        /\ ~authorizedFilter.star => Includes(authorizedFilter.list, e.serviceId)
        /\ OptionalFilters(e, input)
        /\ (ilike(Some(e.title), pat) \/ ilike(e.description, pat))
  IN  IF ~db.up THEN {Threw(1, 0)}
      ELSE { Returned(r, 1, 0, <<>>) :
               r \in OrderedLimit({Row(e) : e \in {x \in db.rows : Where(x)}},
                                  Recency, input.limit) }

\* The parameter is named _context and is never read.
semanticSearch0(db, emb, input, context) ==
  LET queryEmbedding == generateEmbedding(emb, input.query)
      Where(e) ==
        /\ OptionalFilters(e, input)
        /\ IsSome(e.embedding)
  IN  IF ~queryEmbedding.up THEN {Threw(0, 1)}
      ELSE IF ~db.up THEN {Threw(1, 1)}
      ELSE { Returned(r, 1, 1, <<>>) :
               r \in OrderedLimit(
                       {ScoredRow(e, queryEmbedding.vector) :
                          e \in {x \in db.rows : Where(x)}},
                       Distance, input.limit) }

searchEvents0(db, emb, input, context) ==
  IF input.useSemanticSearch
  THEN semanticSearch0(db, emb, input, context)
  ELSE keywordSearch0(db, input, context)

getEventById0(db, eventId, context) ==
  LET result == {Row(e) : e \in {x \in db.rows : x.id = eventId}}
  IN  IF ~db.up THEN {Threw(1, 0)}
      ELSE IF result = {} THEN {Returned(None, 1, 0, <<>>)}
      ELSE LET event == The(result)
               authorizedFilter == getAuthorizedServiceFilter(context)
           IN  IF ~authorizedFilter.star
                  /\ ~Includes(authorizedFilter.list, event.serviceId)
               THEN {Returned(None, 1, 0, <<>>)}
               ELSE {Returned(Some(event), 1, 0, <<>>)}

getServiceTimeline0(db, serviceId, startDate, endDate, limit, context) ==
  LET authorizedFilter == getAuthorizedServiceFilter(context)
      Where(e) ==
        /\ e.serviceId = serviceId
        /\ IsSome(startDate) => e.occurredAt >= The(startDate)
        /\ IsSome(endDate) => e.occurredAt <= The(endDate)
  IN  IF ~authorizedFilter.star /\ ~Includes(authorizedFilter.list, serviceId)
      THEN {Returned(<<>>, 0, 0, <<>>)}
      ELSE IF ~db.up THEN {Threw(1, 0)}
      ELSE { Returned(r, 1, 0, <<>>) :
               r \in OrderedLimit({Row(e) : e \in {x \in db.rows : Where(x)}},
                                  Recency, limit) }

\* get_event_details: the text the tool answers with (mcp/server.ts:71-97).
EventDetailsResponse(event) ==
  IF ~IsSome(event) THEN [error |-> "Event not found"]
  ELSE [id |-> The(event).id, service |-> The(event).serviceId,
        type |-> The(event).eventType, severity |-> The(event).severity,
        title |-> The(event).title, description |-> The(event).description,
        occurredAt |-> The(event).occurredAt]

\* --------------------------------------- impact summary (impact-summary.ts)
SEVERITY_PRIORITY ==
  [critical |-> 4, error |-> 3, warning |-> 2, info |-> 1]

\* The comparator handed to Array.prototype.sort: negative when a goes first.
ComparePriority(a, b) ==
  LET severityDiff == SEVERITY_PRIORITY[b.severity] - SEVERITY_PRIORITY[a.severity]
  IN  IF severityDiff # 0 THEN severityDiff
      ELSE b.occurredAt - a.occurredAt

\* Variant: severity is not looked at, the most recent event goes first.
RECURSIVE InsertByPriorityRecencyOnly(_, _)
InsertByPriorityRecencyOnly(sorted, x) ==
  IF sorted = <<>> THEN <<x>>
  ELSE IF Head(sorted).occurredAt >= x.occurredAt
       THEN <<Head(sorted)>> \o InsertByPriorityRecencyOnly(Tail(sorted), x)
       ELSE <<x>> \o sorted
\* Array.prototype.sort is stable: an element goes after every element that
\* does not compare greater than it.
RECURSIVE InsertByPriority(_, _)
InsertByPriority(sorted, x) ==
  IF sorted = <<>> THEN <<x>>
  ELSE IF ComparePriority(Head(sorted), x) <= 0
       THEN <<Head(sorted)>> \o InsertByPriority(Tail(sorted), x)
       ELSE <<x>> \o sorted
RECURSIVE prioritizedEvents(_)
prioritizedEvents(evs) ==
  IF evs = <<>> THEN <<>>
  ELSE InsertByPriority(prioritizedEvents(SubSeq(evs, 1, Len(evs) - 1)),
                        evs[Len(evs)])

NoEventsMessage(serviceId) ==
  [text |-> "No significant events found for service", serviceId |-> serviceId]
CountWhere(evs, field, v) == Cardinality({i \in DOMAIN evs : evs[i][field] = v})
\* generateMockSummary: what the text depends on (called with one event at
\* least).
generateMockSummary(serviceId, evs) ==
  [text |-> "Impact Summary for", serviceId |-> serviceId,
   criticalCount |-> CountWhere(evs, "severity", "critical"),
   errorCount |-> CountWhere(evs, "severity", "error"),
   deploymentCount |-> CountWhere(evs, "eventType", "deployment"),
   incidentCount |-> CountWhere(evs, "eventType", "incident"),
   total |-> Len(evs),
   mostSignificant |-> [title |-> evs[1].title, severity |-> evs[1].severity]]
\* The summarization collaborator: no key or 'mock', an answer, or a failure
\* (caught: the mock summary is the fallback).
Summarizers == {"mock", "answers", "fails"}
generateSummaryWithLLM(llm, serviceId, evs) ==
  IF llm = "answers" THEN [text |-> "analysis", serviceId |-> serviceId]
  ELSE generateMockSummary(serviceId, evs)

\* Variant: a refused tenant is told so.
generateImpactSummaryTellsRefusal(db, llm, input, context) ==
  { IF t.status # "ok" THEN t @@ [summarized |-> None]
    ELSE IF t.value = <<>>
    THEN [status |-> "ok",
          value |-> IF t.reads = 0
                    THEN [text |-> "Not authorized for service",
                          serviceId |-> input.serviceId]
                    ELSE NoEventsMessage(input.serviceId),
          reads |-> t.reads, embeds |-> 0,
          audits |-> t.audits \o
            <<auditEventAccess(context.callerId, context.callerName,
                "get_impact_summary", 0, Some(input.serviceId),
                Some([reason |-> "no_events"]))>>,
          summarized |-> None]
    ELSE [status |-> "ok",
          value |-> generateSummaryWithLLM(llm, input.serviceId,
                                           prioritizedEvents(t.value)),
          reads |-> t.reads, embeds |-> 0,
          audits |-> t.audits \o
            <<auditEventAccess(context.callerId, context.callerName,
                "get_impact_summary", Len(t.value), Some(input.serviceId),
                Some([startDate |-> input.startDate, endDate |-> input.endDate,
                      eventCount |-> Len(t.value)]))>>,
          summarized |-> Some(prioritizedEvents(t.value))] :
    t \in getServiceTimeline(db, input.serviceId, input.startDate,
                             input.endDate, input.maxEvents, context) }
\* generateImpactSummary: the timeline of the tenant, capped at maxEvents by
\* getServiceTimeline, is sorted and summarized; an empty timeline ends the
\* call with the fixed message.  summarized is what the collaborator was handed.
generateImpactSummary(db, llm, input, context) ==
  { IF t.status # "ok" THEN t @@ [summarized |-> None]
    ELSE IF t.value = <<>>
    THEN [status |-> "ok", value |-> NoEventsMessage(input.serviceId),
          reads |-> t.reads, embeds |-> 0,
          audits |-> t.audits \o
            <<auditEventAccess(context.callerId, context.callerName,
                "get_impact_summary", 0, Some(input.serviceId),
                Some([reason |-> "no_events"]))>>,
          summarized |-> None]
    ELSE [status |-> "ok",
          value |-> generateSummaryWithLLM(llm, input.serviceId,
                                           prioritizedEvents(t.value)),
          reads |-> t.reads, embeds |-> 0,
          audits |-> t.audits \o
            <<auditEventAccess(context.callerId, context.callerName,
                "get_impact_summary", Len(t.value), Some(input.serviceId),
                Some([startDate |-> input.startDate, endDate |-> input.endDate,
                      eventCount |-> Len(t.value)]))>>,
          summarized |-> Some(prioritizedEvents(t.value))] :
    t \in getServiceTimeline(db, input.serviceId, input.startDate,
                             input.endDate, input.maxEvents, context) }

\* ------------------------------------------------------- Credential Resolver
\* The credentials that occur: the three seeded ones (scripts/seed.ts:7-16,
\* shortened) and one no record matches.
Credentials == {"pei_admin", "pei_a", "pei_b", "pei_zzz"}
\* Those a call presents itself: an expiring one and an unrecognized one.
OwnCredentials == {"pei_b", "pei_zzz"}

\* Variant: the credential is stored and logged as it is.
hashTokenPlain(token) == token
\* SHA-256 in hex: one digest per credential, never the credential itself.
hashToken(token) ==
  CASE token = "pei_admin" -> "8f2a"
    [] token = "pei_a" -> "c41d"
    [] token = "pei_b" -> "07be"
    [] token = "pei_zzz" -> "e950"

\* The extra argument of a tool handler: absent, without metadata, or with a
\* metadata object whose authToken is absent, '' or a credential.
Extras ==
  {None, Some([metadata |-> None])}
    \cup { Some([metadata |-> Some([authToken |-> t])]) :
             t \in {None, Some("")} \cup {Some(k) : k \in OwnCredentials} }

extractMetadata(extra) ==
  IF ~IsSome(extra) THEN None ELSE The(extra).metadata

\* Variant: the environment's credential is preferred to the call's own.
AuthTokenOfEnvFirst(extra, envToken) ==
  LET metadata == extractMetadata(extra)
      own == IF IsSome(metadata) THEN The(metadata).authToken ELSE None
  IN  IF Truthy(envToken) THEN envToken ELSE own

\* metadata?.authToken || process.env.PEI_AUTH_TOKEN
AuthTokenOf(extra, envToken) ==
  LET metadata == extractMetadata(extra)
      own == IF IsSome(metadata) THEN The(metadata).authToken ELSE None
  IN  IF Truthy(own) THEN own ELSE envToken

\* What a resolution hands back: the Caller Context, the audit entries it gave
\* to auditLog, and the ids of the records whose lastUsedAt it set out to write.
Resolution(ctx, audits, writes) ==
  [ctx |-> ctx, audits |-> audits, writes |-> writes]

\* Variant: a call without a credential is treated as an unrecognized one.
resolveMissingTokenAsInvalid ==
  Resolution([callerId |-> "invalid", callerName |-> None,
              authorizedServices |-> <<>>, callerType |-> "token"],
             <<auditAuthFailure("unknown", "invalid_token", None)>>, {})
\* auth.ts:21-30
resolveMissingToken ==
  Resolution([callerId |-> "anonymous", callerName |-> None,
              authorizedServices |-> <<>>, callerType |-> "token"],
             <<auditAuthFailure("anonymous", "missing_token", None)>>, {})

\* Variant: the expiry of the matched record is not looked at.
resolveFoundTokenNoExpiry(token, tokenHash, clock) ==
  IF token = {}
  THEN Resolution([callerId |-> "invalid", callerName |-> None,
                   authorizedServices |-> <<>>, callerType |-> "token"],
                  <<auditAuthFailure("unknown", "invalid_token",
                                     Some([tokenHash |-> tokenHash]))>>, {})
  ELSE LET tokenRecord == The(token)
       IN  Resolution(
             [callerId |-> tokenRecord.id,
              callerName |-> Some(tokenRecord.name),
              authorizedServices |-> tokenRecord.authorizedServices,
              callerType |-> "token"],
             <<auditAuthSuccess(tokenRecord.id, Some(tokenRecord.name),
                 Some([authorizedServices |->
                         tokenRecord.authorizedServices]))>>,
             {tokenRecord.id})

\* auth.ts:40-83, once the lookup has answered with the rows token.
\* Variant: lastUsedAt is updated before the expiry check.
resolveFoundTokenStampsExpired(token, tokenHash, clock) ==
  IF token = {}
  THEN Resolution([callerId |-> "invalid", callerName |-> None,
                   authorizedServices |-> <<>>, callerType |-> "token"],
                  <<auditAuthFailure("unknown", "invalid_token",
                                     Some([tokenHash |-> tokenHash]))>>, {})
  ELSE LET tokenRecord == The(token)
       IN  IF IsSome(tokenRecord.expiresAt) /\ The(tokenRecord.expiresAt) < clock
           THEN Resolution(
                  [callerId |-> tokenRecord.id, callerName |-> None,
                   authorizedServices |-> <<>>, callerType |-> "token"],
                  <<auditAuthFailure(tokenRecord.id, "expired_token",
                      Some([name |-> tokenRecord.name,
                            expiresAt |-> The(tokenRecord.expiresAt)]))>>,
                  {tokenRecord.id})
           ELSE Resolution(
                  [callerId |-> tokenRecord.id,
                   callerName |-> Some(tokenRecord.name),
                   authorizedServices |-> tokenRecord.authorizedServices,
                   callerType |-> "token"],
                  <<auditAuthSuccess(tokenRecord.id, Some(tokenRecord.name),
                      Some([authorizedServices |->
                              tokenRecord.authorizedServices]))>>,
                  {tokenRecord.id})

resolveFoundToken(token, tokenHash, clock) ==
  IF token = {}
  THEN Resolution([callerId |-> "invalid", callerName |-> None,
                   authorizedServices |-> <<>>, callerType |-> "token"],
                  <<auditAuthFailure("unknown", "invalid_token",
                                     Some([tokenHash |-> tokenHash]))>>, {})
  ELSE LET tokenRecord == The(token)
       IN  IF IsSome(tokenRecord.expiresAt) /\ The(tokenRecord.expiresAt) < clock
           THEN Resolution(
                  [callerId |-> tokenRecord.id, callerName |-> None,
                   authorizedServices |-> <<>>, callerType |-> "token"],
                  <<auditAuthFailure(tokenRecord.id, "expired_token",
                      Some([name |-> tokenRecord.name,
                            expiresAt |-> The(tokenRecord.expiresAt)]))>>, {})
           ELSE Resolution(
                  [callerId |-> tokenRecord.id,
                   callerName |-> Some(tokenRecord.name),
                   authorizedServices |-> tokenRecord.authorizedServices,
                   callerType |-> "token"],
                  <<auditAuthSuccess(tokenRecord.id, Some(tokenRecord.name),
                      Some([authorizedServices |->
                              tokenRecord.authorizedServices]))>>,
                  {tokenRecord.id})

\* The Credential Records of scripts/seed.ts:57-76, the third given an expiry.
SeedTokens ==
  [id \in {"t1", "t2", "t3"} |->
     CASE id = "t1" ->
            [id |-> "t1", tokenHash |-> hashToken("pei_admin"),
             name |-> "Admin Token", authorizedServices |-> <<"*">>,
             createdBy |-> "system", expiresAt |-> None, lastUsedAt |-> None]
       [] id = "t2" ->
            [id |-> "t2", tokenHash |-> hashToken("pei_a"),
             name |-> "Tenant A", authorizedServices |-> <<"svc-a">>,
             createdBy |-> "admin", expiresAt |-> None, lastUsedAt |-> None]
       [] id = "t3" ->
            [id |-> "t3", tokenHash |-> hashToken("pei_b"),
             name |-> "Tenant B", authorizedServices |-> <<"svc-b">>,
             createdBy |-> "admin", expiresAt |-> Some(1), lastUsedAt |-> None]]

\* ------------------------------------------------------------ createApiToken
\* generateSecureToken: 32 random bytes in hex, a credential no record has yet.
generateSecureToken(store) ==
  { t \in Credentials :
      \A k \in DOMAIN store : store[k].tokenHash # hashToken(t) }

\* The ids the credential store gives its rows (uuid defaultRandom).
TokenIds == <<"t1", "t2", "t3", "t4", "t5">>

\* expiresInDays as callers pass it: omitted, 0, already expired, tomorrow.
ExpiresInDays == {None, Some(0), Some(0 - 1), Some(1)}

\* Variant: only the first of the services is stored.
createApiTokenFirstServiceOnly(name, authorizedServices, createdBy, expiresInDays, token, id, clock) ==
  [row |-> [id |-> id, tokenHash |-> hashToken(token), name |-> name,
            authorizedServices |-> IF authorizedServices = <<>> THEN <<>>
                                   ELSE <<Head(authorizedServices)>>,
            createdBy |-> createdBy,
            expiresAt |-> IF IsSome(expiresInDays) /\ The(expiresInDays) # 0
                          THEN Some(clock + The(expiresInDays))
                          ELSE None,
            lastUsedAt |-> None],
   result |-> [token |-> token, id |-> id]]

\* The row createApiToken inserts for the generated token and the value it
\* returns; id is the id the store gives the row, a day is one tick.
createApiToken(name, authorizedServices, createdBy, expiresInDays, token, id, clock) ==
  [row |-> [id |-> id, tokenHash |-> hashToken(token), name |-> name,
            authorizedServices |-> authorizedServices,
            createdBy |-> createdBy,
            expiresAt |-> IF IsSome(expiresInDays) /\ The(expiresInDays) # 0
                          THEN Some(clock + The(expiresInDays))
                          ELSE None,
            lastUsedAt |-> None],
   result |-> [token |-> token, id |-> id]]

\* ==================================================================== state
VARIABLES
  events,        \* the Event Records of the storage collaborator
  apiTokens,     \* the Credential Records, by id
  env,           \* process.env.PEI_AUTH_TOKEN: {} or {token}
  now,           \* the clock new Date() reads
  auditTrail,    \* the AUDIT lines written to stderr, oldest first
  errorLog,      \* the other console.error lines, oldest first
  pendingWrites, \* lastUsedAt updates issued and not yet settled
  issued,        \* the createApiToken calls made: arguments and result
  calls,         \* the tool calls, by call id
  retryRun       \* the retry() call in progress, if any

vars ==
  <<events, apiTokens, env, now, auditTrail, errorLog, pendingWrites, issued,
    calls, retryRun>>

\* No retry() call is in progress.
NoRetry ==
  [pc |-> "none", maxRetries |-> 0, baseDelayMs |-> 0, attempt |-> 0,
   lastError |-> None, history |-> <<>>, sleeps |-> <<>>, result |-> None]

CallIds == 1..MaxCalls

IdleCall ==
  [pc |-> "idle", own |-> None, authToken |-> None, tokenHash |-> None,
   lookups |-> 0, token |-> {}, authAudits |-> 0, authAt |-> None,
   ctx |-> None, op |-> "none", impl |-> "none", input |-> None,
   status |-> "none", value |-> None, reads |-> 0, embeds |-> 0,
   accessAt |-> None, summarized |-> None]

\* --------------------------------------------------------- input domains
AuthLists == UNION {[1..n -> ServiceNames] : n \in 0..MaxAuth}
GateContexts ==
  { [callerId |-> "caller-1", callerName |-> None, authorizedServices |-> a,
     callerType |-> "token"] : a \in AuthLists }
Queries == {<<"a">>, <<"%">>}
ServiceFilters == {None, Some(""), Some("svc-a"), Some("svc-b")}
StartDates == {None, Some(2)}
EndDates == {None, Some(1)}
Limits == {1, MaxLimit}
Embeddings ==
  {[up |-> TRUE, vector |-> v] : v \in Vectors}
    \cup {[up |-> FALSE, vector |-> "v1"]}
SearchInputs ==
  [query : Queries, serviceId : ServiceFilters,
   eventType : {None, Some("incident")}, severity : {None, Some("info")},
   startDate : StartDates, endDate : EndDates, limit : Limits,
   useSemanticSearch : BOOLEAN]
TimelineInputs ==
  [serviceId : Tenants, startDate : StartDates, endDate : EndDates,
   limit : Limits]

\* -------------------------------------------------------------- gate steps
\* Variant: the value goes back to the caller and the audit entries are
\* never written.
FinishUnaudited(c, op, impl, input, o) ==
  /\ calls' = [calls EXCEPT ![c] =
       [@ EXCEPT !.pc = IF o.status = "ok" THEN "returned" ELSE "failed",
                 !.op = op, !.impl = impl, !.input = Some(input),
                 !.status = o.status, !.value = o.value,
                 !.reads = o.reads, !.embeds = o.embeds]]
  /\ UNCHANGED <<retryRun, events, apiTokens, env, now, auditTrail, errorLog,
                 pendingWrites, issued>>

\* The call c ends with outcome o: the value goes back to the caller and the
\* audit entries o carries are written, stamped with the clock.
Finish(c, op, impl, input, o) ==
  /\ calls' = [calls EXCEPT ![c] =
       [@ EXCEPT !.pc = IF o.status = "ok" THEN "returned" ELSE "failed",
                 !.op = op, !.impl = impl, !.input = Some(input),
                 !.status = o.status, !.value = o.value,
                 !.reads = o.reads, !.embeds = o.embeds,
                 !.accessAt = IF o.audits = <<>> THEN None
                              ELSE Some(Len(auditTrail) + Len(o.audits)),
                 !.summarized = IF "summarized" \in DOMAIN o
                                THEN o.summarized ELSE None]]
  /\ auditTrail' =
       auditTrail \o [i \in 1..Len(o.audits) |-> auditLog(o.audits[i], now)]
  /\ UNCHANGED <<retryRun, events, apiTokens, env, now, errorLog, pendingWrites, issued>>

Db(up) == [rows |-> events, up |-> up]

SearchEvents(c, Inputs) ==
  /\ calls[c].pc = "resolved"
  /\ \E input \in Inputs, up \in BOOLEAN, emb \in Embeddings :
       \E o \in searchEvents(Db(up), emb, input, The(calls[c].ctx)) :
         Finish(c, "search", "events", input, o)

GetEventById(c, Ids) ==
  /\ calls[c].pc = "resolved"
  /\ \E eventId \in Ids, up \in BOOLEAN :
       \E o \in getEventById(Db(up), eventId, The(calls[c].ctx)) :
         Finish(c, "get_details", "events", [eventId |-> eventId], o)

\* Variant: the handler reads the context from one slot every call writes, so
\* it may run with the context another call resolved.
GetServiceTimelineSharedContext(c, Inputs) ==
  /\ calls[c].pc = "resolved"
  /\ \E input \in Inputs, up \in BOOLEAN, d \in CallIds :
       /\ IsSome(calls[d].ctx)
       /\ \E o \in getServiceTimeline(Db(up), input.serviceId, input.startDate,
                                      input.endDate, input.limit,
                                      The(calls[d].ctx)) :
            Finish(c, "get_timeline", "events", input, o)

GetServiceTimeline(c, Inputs) ==
  /\ calls[c].pc = "resolved"
  /\ \E input \in Inputs, up \in BOOLEAN :
       \E o \in getServiceTimeline(Db(up), input.serviceId, input.startDate,
                                   input.endDate, input.limit,
                                   The(calls[c].ctx)) :
         Finish(c, "get_timeline", "events", input, o)

SearchEvents0(c, Inputs) ==
  /\ calls[c].pc = "resolved"
  /\ \E input \in Inputs, up \in BOOLEAN, emb \in Embeddings :
       \E o \in searchEvents0(Db(up), emb, input, The(calls[c].ctx)) :
         Finish(c, "search", "events0", input, o)

GetEventById0(c, Ids) ==
  /\ calls[c].pc = "resolved"
  /\ \E eventId \in Ids, up \in BOOLEAN :
       \E o \in getEventById0(Db(up), eventId, The(calls[c].ctx)) :
         Finish(c, "get_details", "events0", [eventId |-> eventId], o)

GetServiceTimeline0(c, Inputs) ==
  /\ calls[c].pc = "resolved"
  /\ \E input \in Inputs, up \in BOOLEAN :
       \E o \in getServiceTimeline0(Db(up), input.serviceId, input.startDate,
                                    input.endDate, input.limit,
                                    The(calls[c].ctx)) :
         Finish(c, "get_timeline", "events0", input, o)

\* The two questions of the Entitlement Evaluator, asked about one tenant.
Evaluate(c) ==
  /\ calls[c].pc = "resolved"
  /\ \E serviceId \in ServiceNames :
       Finish(c, "evaluate", "types", [serviceId |-> serviceId],
              Returned([authorized |->
                          isAuthorizedForService(The(calls[c].ctx), serviceId),
                        filter |->
                          getAuthorizedServiceFilter(The(calls[c].ctx))],
                       0, 0, <<>>))

\* ------------------------------------------- the gate called on its own
\* The Query Gate operations as the tests call them: with a Caller Context
\* built by the caller, whatever its entitlement set, on any store.

InitGate ==
  /\ events \in Stores
  /\ apiTokens = SeedTokens
  /\ env = None
  /\ now = 1
  /\ auditTrail = <<>>
  /\ errorLog = <<>>
  /\ pendingWrites = {}
  /\ issued = <<>>
  /\ retryRun = NoRetry
  /\ \E context \in GateContexts :
       calls = [c \in CallIds |->
                  IF c = 1 THEN [IdleCall EXCEPT !.pc = "resolved",
                                                 !.ctx = Some(context)]
                  ELSE IdleCall]

NextGate ==
  \/ SearchEvents(1, SearchInputs)
  \/ GetEventById(1, EventIds)
  \/ GetServiceTimeline(1, TimelineInputs)
  \/ SearchEvents0(1, SearchInputs)
  \/ GetEventById0(1, EventIds)
  \/ GetServiceTimeline0(1, TimelineInputs)
  \/ Evaluate(1)

SpecGate == InitGate /\ [][NextGate]_vars

\* ------------------------------------------------------------ the tool calls
ToolSearchInputs ==
  [query : {<<"a">>}, serviceId : {None}, eventType : {None},
   severity : {None}, startDate : {None}, endDate : {None}, limit : {MaxLimit},
   useSemanticSearch : BOOLEAN]
ToolEventIds == {"e2", "e9"}
ToolTimelineInputs ==
  [serviceId : Tenants, startDate : {None}, endDate : {None},
   limit : {MaxLimit}]

\* A handler starts: resolveCallerContext runs up to its first await.  Without
\* a credential it returns at once; otherwise the lookup is issued.
Receive(c) ==
  /\ calls[c].pc = "idle"
  /\ \E extra \in Extras :
       LET metadata == extractMetadata(extra)
           own == IF IsSome(metadata) THEN The(metadata).authToken ELSE None
           authToken == AuthTokenOf(extra, env)
       IN  IF ~Truthy(authToken)
           THEN LET r == resolveMissingToken
                IN  /\ calls' = [calls EXCEPT ![c] =
                         [@ EXCEPT !.pc = "resolved", !.own = own,
                                   !.authToken = authToken,
                                   !.ctx = Some(r.ctx),
                                   !.authAudits = Len(r.audits),
                                   !.authAt = Some(Len(auditTrail) + Len(r.audits))]]
                    /\ auditTrail' = auditTrail \o
                         [i \in 1..Len(r.audits) |-> auditLog(r.audits[i], now)]
           ELSE /\ calls' = [calls EXCEPT ![c] =
                     [@ EXCEPT !.pc = "lookup", !.own = own,
                               !.authToken = authToken,
                               !.tokenHash = Some(hashToken(The(authToken))),
                               !.lookups = @ + 1]]
                /\ UNCHANGED auditTrail
  /\ UNCHANGED <<retryRun, events, apiTokens, env, now, errorLog, pendingWrites, issued>>

\* The credential-store lookup answers: with the matching rows, or it rejects
\* and resolveCallerContext, which catches nothing, rejects with it.
ResolveLookup(c) ==
  /\ calls[c].pc = "lookup"
  /\ \E up \in BOOLEAN :
       IF ~up
       THEN /\ calls' = [calls EXCEPT ![c] =
                 [@ EXCEPT !.pc = "failed", !.op = "resolve",
                           !.status = "error"]]
            /\ UNCHANGED <<auditTrail, pendingWrites>>
       ELSE LET token == { apiTokens[id] : id \in
                             { k \in DOMAIN apiTokens :
                                 apiTokens[k].tokenHash = The(calls[c].tokenHash) } }
                r == resolveFoundToken(token, The(calls[c].tokenHash), now)
            IN  /\ calls' = [calls EXCEPT ![c] =
                     [@ EXCEPT !.pc = "resolved", !.token = token,
                               !.ctx = Some(r.ctx),
                               !.authAudits = Len(r.audits),
                               !.authAt = Some(Len(auditTrail) + Len(r.audits))]]
                /\ auditTrail' = auditTrail \o
                     [i \in 1..Len(r.audits) |-> auditLog(r.audits[i], now)]
                /\ pendingWrites' = pendingWrites \cup
                     {[call |-> c, id |-> id, at |-> now] : id \in r.writes}
  /\ UNCHANGED <<retryRun, events, apiTokens, env, now, errorLog, issued>>

\* Variant: a lastUsedAt update that fails is dropped without a trace.
SettleWriteSilent ==
  \E w \in pendingWrites :
    /\ pendingWrites' = pendingWrites \ {w}
    /\ \/ apiTokens' = [apiTokens EXCEPT ![w.id].lastUsedAt = Some(w.at)]
       \/ UNCHANGED apiTokens
    /\ UNCHANGED <<retryRun, events, env, now, auditTrail, errorLog, issued, calls>>

\* A lastUsedAt update settles: it is stored, or it fails and the catch
\* callback logs the failure.
SettleWrite ==
  \E w \in pendingWrites :
    /\ pendingWrites' = pendingWrites \ {w}
    /\ \/ /\ apiTokens' = [apiTokens EXCEPT ![w.id].lastUsedAt = Some(w.at)]
          /\ UNCHANGED errorLog
       \/ /\ errorLog' = Append(errorLog,
                 <<"Failed to update lastUsedAt for token:", w.id>>)
          /\ UNCHANGED apiTokens
    /\ UNCHANGED <<retryRun, events, env, now, auditTrail, issued, calls>>

Tick ==
  /\ now < MaxTime
  /\ now' = now + 1
  /\ UNCHANGED <<retryRun, events, apiTokens, env, auditTrail, errorLog, pendingWrites,
                 issued,                 calls>>

Init ==
  /\ events = EventCatalogue
  /\ apiTokens = SeedTokens
  /\ env \in {None, Some("pei_admin")}
  /\ now = 1
  /\ auditTrail = <<>>
  /\ errorLog = <<>>
  /\ pendingWrites = {}
  /\ issued = <<>>
  /\ retryRun = NoRetry
  /\ calls = [c \in CallIds |-> IdleCall]

Next ==
  \/ \E c \in CallIds :
       \/ Receive(c)
       \/ ResolveLookup(c)
       \/ SearchEvents(c, ToolSearchInputs)
       \/ GetEventById(c, ToolEventIds)
       \/ GetServiceTimeline(c, ToolTimelineInputs)
  \/ SettleWrite
  \/ Tick

Spec == Init /\ [][Next]_vars

\* --------------------------------------------------- issuing and resolving
\* The entitlement sets tokens are issued for: none, one tenant, a tenant and
\* the wildcard.
IssuedServices == {<<>>, <<"svc-a">>, <<"svc-b", "*">>}

\* createApiToken is called: the insert stores the row and the token and id go
\* back to the caller, or the insert rejects and so does the call.
CreateApiToken ==
  /\ Len(issued) < MaxIssued
  /\ Cardinality(DOMAIN apiTokens) < Len(TokenIds)
  /\ \E token \in generateSecureToken(apiTokens),
        authorizedServices \in IssuedServices,
        expiresInDays \in ExpiresInDays, up \in BOOLEAN :
       LET id == TokenIds[Cardinality(DOMAIN apiTokens) + 1]
           r == createApiToken("Test Token", authorizedServices, "test-suite",
                               expiresInDays, token, id, now)
           call == [name |-> "Test Token",
                    authorizedServices |-> authorizedServices,
                    createdBy |-> "test-suite",
                    expiresInDays |-> expiresInDays, at |-> now]
       IN  IF up
           THEN /\ apiTokens' = apiTokens @@ (id :> r.row)
                /\ issued' = Append(issued, call @@ [result |-> Some(r.result)])
           ELSE /\ issued' = Append(issued, call @@ [result |-> None])
                /\ UNCHANGED apiTokens
  /\ UNCHANGED <<retryRun, events, env, now, auditTrail, errorLog, pendingWrites, calls>>

NextTokens ==
  \/ CreateApiToken
  \/ Receive(1)
  \/ ResolveLookup(1)
  \/ SettleWrite
  \/ Tick

SpecTokens == Init /\ [][NextTokens]_vars

\* --------------------------------------------------- the impact summary alone
\* generateImpactSummary as the Impact Summary tests call it: a context made by
\* hand, events of several severities and times in the store.
ImpactCatalogue ==
  { [id |-> "i1", serviceId |-> "svc-a", eventType |-> "incident",
     severity |-> "critical", title |-> <<"a">>, description |-> None,
     occurredAt |-> 1, embedding |-> None],
    [id |-> "i2", serviceId |-> "svc-a", eventType |-> "deployment",
     severity |-> "info", title |-> <<"b">>, description |-> None,
     occurredAt |-> 2, embedding |-> None],
    [id |-> "i3", serviceId |-> "svc-a", eventType |-> "incident",
     severity |-> "error", title |-> <<"c">>, description |-> None,
     occurredAt |-> 2, embedding |-> None],
    [id |-> "i4", serviceId |-> "svc-a", eventType |-> "deployment",
     severity |-> "warning", title |-> <<"d">>, description |-> None,
     occurredAt |-> 3, embedding |-> None],
    [id |-> "i5", serviceId |-> "svc-a", eventType |-> "incident",
     severity |-> "critical", title |-> <<"e">>, description |-> None,
     occurredAt |-> 3, embedding |-> None],
    [id |-> "i6", serviceId |-> "svc-b", eventType |-> "incident",
     severity |-> "critical", title |-> <<"f">>, description |-> None,
     occurredAt |-> 2, embedding |-> None] }
ImpactStores == {S \in SUBSET ImpactCatalogue : Cardinality(S) <= MaxStore}
ImpactContexts == {x \in GateContexts : Len(x.authorizedServices) <= 1}
ImpactInputs ==
  [serviceId : Tenants, startDate : StartDates, endDate : {None, Some(2)},
   maxEvents : {1, MaxStore}]

GetImpactSummary(c, Inputs) ==
  /\ calls[c].pc = "resolved"
  /\ \E input \in Inputs, up \in BOOLEAN, llm \in Summarizers :
       \E o \in generateImpactSummary(Db(up), llm, input, The(calls[c].ctx)) :
         Finish(c, "get_impact_summary", "impact-summary", input, o)

InitImpact ==
  /\ events \in ImpactStores
  /\ apiTokens = SeedTokens
  /\ env = None
  /\ now = 1
  /\ auditTrail = <<>>
  /\ errorLog = <<>>
  /\ pendingWrites = {}
  /\ issued = <<>>
  /\ retryRun = NoRetry
  /\ \E context \in ImpactContexts :
       calls = [c \in CallIds |->
                  IF c = 1 THEN [IdleCall EXCEPT !.pc = "resolved",
                                                 !.ctx = Some(context)]
                  ELSE IdleCall]

NextImpact == GetImpactSummary(1, ImpactInputs)

SpecImpact == InitImpact /\ [][NextImpact]_vars

\* ------------------------------------------------------ retry (utils/index.ts)
\* What fn settles with: a value, or a rejection with an Error or with a value
\* that is not an Error.
Rejections ==
  { [isError |-> TRUE, text |-> "e1"], [isError |-> TRUE, text |-> "e2"],
    [isError |-> FALSE, text |-> "boom"] }
FnOutcomes ==
  {[ok |-> TRUE, v |-> [isError |-> FALSE, text |-> "done"]]}
    \cup {[ok |-> FALSE, v |-> e] : e \in Rejections}
BaseDelays == {1, 100}

\* error instanceof Error ? error : new Error(String(error))
AsError(error) ==
  IF error.isError THEN error ELSE [isError |-> TRUE, text |-> error.text]
RECURSIVE Pow2(_)
Pow2(n) == IF n = 0 THEN 1 ELSE 2 * Pow2(n - 1)
\* Variant: the same delay before every attempt.
BackoffDelayConstant(baseDelayMs, attempt) == baseDelayMs
BackoffDelay(baseDelayMs, attempt) == baseDelayMs * Pow2(attempt)

\* One turn of the loop: fn is called and awaited.  Its value is returned at
\* once; its rejection is kept as lastError and, unless this was the last
\* attempt, the call sleeps.
RetryAttempt ==
  /\ retryRun.pc = "loop"
  /\ retryRun.attempt < retryRun.maxRetries
  /\ \E o \in FnOutcomes :
       retryRun' =
         IF o.ok
         THEN [retryRun EXCEPT !.pc = "returned", !.result = Some(o.v),
                               !.history = Append(@, o)]
         ELSE IF retryRun.attempt < retryRun.maxRetries - 1
         THEN [retryRun EXCEPT !.pc = "sleeping",
                               !.lastError = Some(AsError(o.v)),
                               !.history = Append(@, o),
                               !.sleeps = Append(@,
                                 BackoffDelay(retryRun.baseDelayMs,
                                              retryRun.attempt))]
         ELSE [retryRun EXCEPT !.attempt = @ + 1,
                               !.lastError = Some(AsError(o.v)),
                               !.history = Append(@, o)]
  /\ UNCHANGED <<events, apiTokens, env, now, auditTrail, errorLog,
                 pendingWrites, issued, calls>>

\* The sleep is over: the next turn of the loop.
RetryWake ==
  /\ retryRun.pc = "sleeping"
  /\ retryRun' = [retryRun EXCEPT !.pc = "loop", !.attempt = @ + 1]
  /\ UNCHANGED <<events, apiTokens, env, now, auditTrail, errorLog,
                 pendingWrites, issued, calls>>

\* The loop is left: throw lastError (undefined when fn was never called).
RetryThrow ==
  /\ retryRun.pc = "loop"
  /\ retryRun.attempt >= retryRun.maxRetries
  /\ retryRun' = [retryRun EXCEPT !.pc = "rejected",
                                  !.result = retryRun.lastError]
  /\ UNCHANGED <<events, apiTokens, env, now, auditTrail, errorLog,
                 pendingWrites, issued, calls>>

InitRetry ==
  /\ events = {}
  /\ apiTokens = SeedTokens
  /\ env = None
  /\ now = 1
  /\ auditTrail = <<>>
  /\ errorLog = <<>>
  /\ pendingWrites = {}
  /\ issued = <<>>
  /\ calls = [c \in CallIds |-> IdleCall]
  /\ \E maxRetries \in 0..MaxRetries, baseDelayMs \in BaseDelays :
       retryRun = [NoRetry EXCEPT !.pc = "loop", !.maxRetries = maxRetries,
                                  !.baseDelayMs = baseDelayMs]

NextRetry ==
  \/ RetryAttempt
  \/ RetryWake
  \/ RetryThrow

\* fn settles and timers fire: a step that can be taken is taken.
SpecRetry == InitRetry /\ [][NextRetry]_vars /\ WF_vars(NextRetry)

\* ------------------------------------------------ keyword search on any text
\* Keyword search as the SQL Injection Protection tests call it: a wildcard
\* context, one stored event, any title, description and query text.
Alphabet == {"a", "A", "'", "%", "_", Backslash}
Texts == UNION {[1..n -> Alphabet] : n \in 0..MaxText}
Descriptions == {None} \cup {Some(t) : t \in {x \in Texts : Len(x) <= 1}}
LikeInputs ==
  [query : Texts, serviceId : {None}, eventType : {None}, severity : {None},
   startDate : {None}, endDate : {None}, limit : {1},
   useSemanticSearch : {FALSE}]

InitLike ==
  /\ \E title \in Texts, description \in Descriptions :
       events = {[id |-> "e1", serviceId |-> "svc-a", eventType |-> "incident",
                  severity |-> "critical", title |-> title,
                  description |-> description, occurredAt |-> 1,
                  embedding |-> None]}
  /\ apiTokens = SeedTokens
  /\ env = None
  /\ now = 1
  /\ auditTrail = <<>>
  /\ errorLog = <<>>
  /\ pendingWrites = {}
  /\ issued = <<>>
  /\ retryRun = NoRetry
  /\ calls = [c \in CallIds |->
                IF c = 1
                THEN [IdleCall EXCEPT
                        !.pc = "resolved",
                        !.ctx = Some([callerId |-> "admin", callerName |-> None,
                                      authorizedServices |-> <<"*">>,
                                      callerType |-> "token"])]
                ELSE IdleCall]

NextLike == SearchEvents(1, LikeInputs)

SpecLike == InitLike /\ [][NextLike]_vars

\* =================================================================== claims
\* The call the gate specification makes, its context and entitlement set.
G == calls[1]
GCtx == The(G.ctx)
GAuth == Range(GCtx.authorizedServices)
GInput == The(G.input)
Entitled(T) == Wildcard \in GAuth \/ T \in GAuth
Tenancy(rows) == {rows[i].serviceId : i \in 1..Len(rows)}
EventWithId(id) == {e \in events : e.id = id}

\* C1: for a context without '*', a search in similarity mode returns no event
\* whose serviceId is outside authorizedServices (the filter keyword mode
\* applies).  Stated of every definition of searchEvents in the repository.
C1_SemanticSearchScoped ==
  (G.op = "search" /\ G.status = "ok" /\ GInput.useSemanticSearch
     /\ Wildcard \notin GAuth)
    => Tenancy(G.value) \subseteq GAuth

\* C2: for a context without '*', a search in keyword mode returns only events
\* of entitled tenants whatever the optional filters, and a serviceId filter
\* naming a tenant outside the entitlement set yields no record.
C2_KeywordSearchEntitled ==
  (G.op = "search" /\ G.status = "ok" /\ ~GInput.useSemanticSearch
     /\ Wildcard \notin GAuth)
    => /\ Tenancy(G.value) \subseteq GAuth
       /\ (Truthy(GInput.serviceId) /\ The(GInput.serviceId) \notin GAuth)
            => G.value = <<>>

\* A keyword search by a caller entitled to svc-a only, filtered on svc-b, on a
\* store holding a svc-b event that matches the query: nothing is returned.
C2_Witness ==
  /\ G.op = "search" /\ G.status = "ok" /\ ~GInput.useSemanticSearch
  /\ GCtx.authorizedServices = <<"svc-a">>
  /\ GInput.serviceId = Some("svc-b") /\ GInput.query = <<"a">>
  /\ GInput.eventType = None /\ GInput.severity = None
  /\ GInput.startDate = None /\ GInput.endDate = None
  /\ \E e \in events : e.id = "e2"
  /\ G.value = <<>>

\* What getEventById (of the definition the call used) may return on a store.
ByIdValues(impl, rows, eventId, context) ==
  { o.value : o \in IF impl = "events"
                    THEN getEventById([rows |-> rows, up |-> TRUE], eventId, context)
                    ELSE getEventById0([rows |-> rows, up |-> TRUE], eventId, context) }
Visible(rows) == {e \in rows : Entitled(e.serviceId)}
NotFoundResponse == [error |-> "Event not found"]

\* C3: getEventById returns null when no event has the id and when the event
\* belongs to a tenant the context does not cover, the tool answers the same
\* text in both cases, and on every store that differs from this one only in
\* events of tenants the caller is not entitled to the call returns the same
\* value.
C3_NotFoundIndistinguishable ==
  (G.op = "get_details" /\ G.status = "ok")
    => /\ (\A e \in EventWithId(GInput.eventId) : ~Entitled(e.serviceId))
            => /\ G.value = None
               /\ EventDetailsResponse(G.value) = NotFoundResponse
       /\ \A other \in SUBSET EventCatalogue :
            Visible(other) = Visible(events)
              => ByIdValues(G.impl, other, GInput.eventId, GCtx) = {G.value}

\* The event exists, in a tenant the caller is not entitled to: null comes back.
C3_Witness ==
  /\ G.op = "get_details" /\ G.status = "ok"
  /\ GCtx.authorizedServices = <<"svc-a">>
  /\ GInput.eventId = "e2"
  /\ \E e \in events : e.id = "e2" /\ e.serviceId = "svc-b"
  /\ G.value = None

\* C4: getServiceTimeline for a tenant the caller is not entitled to returns
\* the empty list without issuing a storage read; for an entitled tenant every
\* returned record belongs to the requested tenant.
C4_TimelineChecksFirst ==
  G.op = "get_timeline"
    => /\ ~Entitled(GInput.serviceId)
            => G.status = "ok" /\ G.value = <<>> /\ G.reads = 0
       /\ (Entitled(GInput.serviceId) /\ G.status = "ok")
            => /\ G.reads = 1
               /\ Tenancy(G.value) \subseteq {GInput.serviceId}

\* A timeline of svc-b asked by a caller entitled to svc-a only, on a store
\* that holds svc-b events.
C4_Witness ==
  /\ G.op = "get_timeline" /\ G.impl = "events"
  /\ GCtx.authorizedServices = <<"svc-a">>
  /\ GInput.serviceId = "svc-b"
  /\ \E e \in events : e.serviceId = "svc-b"
  /\ G.status = "ok" /\ G.value = <<>> /\ G.reads = 0

\* The number of records a completed read operation returned.
RecordCount(call) ==
  IF call.op = "get_details" THEN Cardinality(call.value) ELSE Len(call.value)
ReadOps == {"search", "get_details", "get_timeline"}

\* C5: with authorizedServices = [] each read operation (keyword search,
\* similarity search, getEventById, getServiceTimeline) that completes returns
\* zero records.  Stated of every definition of the operations.
C5_EmptyEntitlementZeroRecords ==
  (G.op \in ReadOps /\ G.status = "ok" /\ GCtx.authorizedServices = <<>>)
    => RecordCount(G) = 0

\* C6: isAuthorizedForService(C, T) is true iff '*' or T is a member of
\* C.authorizedServices.
C6_IsAuthorizedIffMember ==
  G.op = "evaluate"
    => (G.value.authorized
          <=> (Wildcard \in GAuth \/ GInput.serviceId \in GAuth))

\* The wildcard as second member grants a tenant that is not listed.
C6_Witness ==
  /\ G.op = "evaluate"
  /\ GCtx.authorizedServices = <<"svc-a", "*">>
  /\ GInput.serviceId = "svc-b"
  /\ G.value.authorized

\* C7: getAuthorizedServiceFilter(C) is the sentinel iff C.authorizedServices
\* contains '*' and otherwise is exactly C.authorizedServices; the gate's inline
\* check (filter is '*' or filter includes T) agrees with
\* isAuthorizedForService(C, T).
C7_FilterAgreesWithEvaluator ==
  G.op = "evaluate"
    => /\ G.value.filter.star <=> Wildcard \in GAuth
       /\ ~G.value.filter.star
            => G.value.filter.list = GCtx.authorizedServices
       /\ (G.value.filter.star
             \/ Includes(G.value.filter.list, GInput.serviceId))
            <=> G.value.authorized

\* The wildcard beside another member still yields the sentinel.
C7_Witness ==
  /\ G.op = "evaluate"
  /\ GCtx.authorizedServices = <<"svc-a", "*">>
  /\ GInput.serviceId = "svc-b"
  /\ G.value.filter.star
  /\ G.value.authorized

\* ---------------------------------------------------- claims of the resolver
AuthActions == {"authentication_failure", "authentication_success"}
\* Resolution of call c is over: it returned a context or it rejected.
ResolutionOver(c) == calls[c].pc \notin {"idle", "lookup"}
\* The entry call c's resolution emitted last.
AuthEntry(c) == auditTrail[The(calls[c].authAt)]
ContextTypes == {"token", "user"}
MetadataStrings(metadata) ==
  IF metadata = {} THEN {}
  ELSE LET m == The(metadata)
       IN  IF "tokenHash" \in DOMAIN m THEN {m.tokenHash}
           ELSE IF "name" \in DOMAIN m THEN {m.name}
           ELSE Range(m.authorizedServices)
\* Every string an authentication audit entry holds, in any field.
AuditStrings(entry) ==
  {entry.type, entry.level, entry.action, entry.callerId}
    \cup entry.callerName \cup entry.resourceType \cup entry.resourceId
    \cup entry.serviceId \cup Range(entry.message)
    \cup MetadataStrings(entry.metadata)

\* C8: resolveCallerContext never raises: whatever the input and whatever the
\* credential store does, a failing lookup included, a resolution that is over
\* has returned a valid Caller Context and has emitted an authentication audit
\* entry.
C8_ResolveNeverRaises ==
  \A c \in CallIds :
    ResolutionOver(c)
      => /\ calls[c].op # "resolve"
         /\ IsSome(calls[c].ctx)
         /\ The(calls[c].ctx).callerType \in ContextTypes
         /\ calls[c].authAudits >= 1
         /\ AuthEntry(c).action \in AuthActions

\* C9: a call with no credential of its own and no fallback in the environment
\* resolves to callerId 'anonymous', authorizedServices [], callerType 'token',
\* emits exactly one audit entry (authentication_failure, missing_token) and
\* issues no credential-store lookup.
C9_NoCredentialAnonymous ==
  \A c \in CallIds :
    (ResolutionOver(c) /\ ~Truthy(calls[c].own) /\ env = None)
      => /\ calls[c].ctx =
              Some([callerId |-> "anonymous", callerName |-> None,
                    authorizedServices |-> <<>>, callerType |-> "token"])
         /\ calls[c].authAudits = 1
         /\ AuthEntry(c).action = "authentication_failure"
         /\ AuthEntry(c).message = <<"Authentication failed: ", "missing_token">>
         /\ calls[c].lookups = 0

\* An empty authToken with no fallback resolved to the anonymous context
\* without a lookup.
C9_Witness ==
  \E c \in CallIds :
    /\ ResolutionOver(c)
    /\ calls[c].own = Some("")
    /\ env = None
    /\ The(calls[c].ctx).callerId = "anonymous"
    /\ AuthEntry(c).callerId = "anonymous"
    /\ calls[c].lookups = 0

\* The lookup of call c answered and no Credential Record has the digest.
Unrecognized(c) ==
  /\ ResolutionOver(c)
  /\ calls[c].op # "resolve"
  /\ IsSome(calls[c].tokenHash)
  /\ \A k \in DOMAIN apiTokens :
       apiTokens[k].tokenHash # The(calls[c].tokenHash)

\* C10: a credential whose digest matches no Credential Record resolves to
\* callerId 'invalid' with authorizedServices [], and the entry emitted is an
\* authentication_failure with reason invalid_token whose metadata carries the
\* digest; no authentication audit entry of any resolution holds, in any field,
\* a credential a call resolved.
C10_InvalidTokenDigestOnly ==
  /\ \A c \in CallIds :
       Unrecognized(c)
         => /\ The(calls[c].ctx).callerId = "invalid"
            /\ The(calls[c].ctx).authorizedServices = <<>>
            /\ AuthEntry(c).action = "authentication_failure"
            /\ AuthEntry(c).message =
                 <<"Authentication failed: ", "invalid_token">>
            /\ AuthEntry(c).metadata =
                 Some([tokenHash |-> The(calls[c].tokenHash)])
  /\ \A i \in 1..Len(auditTrail) :
       auditTrail[i].action \in AuthActions
         => \A c \in CallIds :
              Truthy(calls[c].authToken)
                => The(calls[c].authToken) \notin AuditStrings(auditTrail[i])

\* The unrecognized credential pei_zzz was resolved and the entry carries its
\* digest.
C10_Witness ==
  \E c \in CallIds :
    /\ Unrecognized(c)
    /\ calls[c].authToken = Some("pei_zzz")
    /\ The(calls[c].ctx).callerId = "invalid"
    /\ AuthEntry(c).metadata = Some([tokenHash |-> "e950"])


\* ------------------------------------------------- claims of token records
\* The record the lookup of call c matched, and the clock when c resolved.
Matched(c) == calls[c].token # {}
tokenRecordOf(c) == The(calls[c].token)
ResolvedAt(c) == AuthEntry(c).timestamp

\* C11: a resolution that matched a record whose expiresAt is in the past
\* returns the record's id as callerId with authorizedServices = [] and emits
\* authentication_failure with reason expired_token; one that matched a record
\* with no expiresAt, or with expiresAt in the future, is not treated as
\* expired.
C11_ExpiredKeepsIdentity ==
  \A c \in CallIds :
    Matched(c)
      => LET r == tokenRecordOf(c)
         IN  /\ (IsSome(r.expiresAt) /\ The(r.expiresAt) < ResolvedAt(c))
                  => /\ The(calls[c].ctx).callerId = r.id
                     /\ The(calls[c].ctx).authorizedServices = <<>>
                     /\ AuthEntry(c).action = "authentication_failure"
                     /\ AuthEntry(c).message =
                          <<"Authentication failed: ", "expired_token">>
             /\ (r.expiresAt = None \/ The(r.expiresAt) > ResolvedAt(c))
                  => /\ AuthEntry(c).action = "authentication_success"
                     /\ The(calls[c].ctx).authorizedServices =
                          r.authorizedServices

\* A token issued with expiresInDays = -1 and a non-empty entitlement set was
\* resolved: the id is kept, the entitlement set is empty.
C11_Witness ==
  \E c \in CallIds :
    /\ Matched(c)
    /\ tokenRecordOf(c).id = "t4"
    /\ tokenRecordOf(c).expiresAt = Some(0)
    /\ tokenRecordOf(c).authorizedServices = <<"svc-a">>
    /\ The(calls[c].ctx).callerId = "t4"
    /\ The(calls[c].ctx).authorizedServices = <<>>


\* The matched record of call c had not expired when c resolved.
Unexpired(c) ==
  ~(IsSome(tokenRecordOf(c).expiresAt)
      /\ The(tokenRecordOf(c).expiresAt) < ResolvedAt(c))

\* C12: a resolution that matched an unexpired record returns exactly the
\* record's id, name and authorizedServices and emits authentication_success
\* carrying that entitlement set; the token a createApiToken call returned
\* resolves to the id it returned and to exactly the services it was given.
C12_ValidTokenExactRecord ==
  /\ \A c \in CallIds :
       (Matched(c) /\ Unexpired(c))
         => LET r == tokenRecordOf(c)
            IN  /\ calls[c].ctx =
                     Some([callerId |-> r.id, callerName |-> Some(r.name),
                           authorizedServices |-> r.authorizedServices,
                           callerType |-> "token"])
                /\ AuthEntry(c).action = "authentication_success"
                /\ AuthEntry(c).callerId = r.id
                /\ AuthEntry(c).metadata =
                     Some([authorizedServices |-> r.authorizedServices])
  /\ \A i \in 1..Len(issued) : \A c \in CallIds :
       (/\ IsSome(issued[i].result)
        /\ calls[c].authToken = Some(The(issued[i].result).token)
        /\ Matched(c) /\ Unexpired(c))
         => /\ The(calls[c].ctx).callerId = The(issued[i].result).id
            /\ The(calls[c].ctx).authorizedServices =
                 issued[i].authorizedServices

\* A token issued for ['svc-b', '*'] without expiry was resolved to the id
\* createApiToken returned and to both services.
C12_Witness ==
  \E c \in CallIds :
    /\ Len(issued) = 1
    /\ issued[1].authorizedServices = <<"svc-b", "*">>
    /\ issued[1].expiresInDays = None
    /\ issued[1].result = Some([token |-> "pei_zzz", id |-> "t4"])
    /\ calls[c].authToken = Some("pei_zzz")
    /\ Matched(c)
    /\ The(calls[c].ctx).callerId = "t4"
    /\ The(calls[c].ctx).callerName = Some("Test Token")
    /\ The(calls[c].ctx).authorizedServices = <<"svc-b", "*">>


\* ------------------------------------------------- claims of the audit trail
\* C13: a call to searchEvents (either mode), getEventById or
\* getServiceTimeline that has ended, whichever way, has emitted exactly one
\* audit entry.  The gate is called once, on an empty audit trail.
C13_ExactlyOneAuditEntry ==
  G.op \in ReadOps => Len(auditTrail) = 1


\* C14: the success field of the audit entry a Query Gate operation emitted is
\* true iff the call returned at least one record (getEventById: the record)
\* and false when it returned none.
C14_SuccessMatchesRecords ==
  (G.op \in ReadOps /\ G.status = "ok" /\ Len(auditTrail) = 1)
    => (auditTrail[1].success <=> RecordCount(G) > 0)


\* The call of the gate was refused for lack of entitlement: getEventById found
\* the event in a tenant the caller is not entitled to, or getServiceTimeline
\* was asked for such a tenant.
Refused ==
  \/ /\ G.op = "get_details" /\ G.status = "ok"
     /\ \E e \in EventWithId(GInput.eventId) : ~Entitled(e.serviceId)
  \/ /\ G.op = "get_timeline" /\ G.status = "ok"
     /\ ~Entitled(GInput.serviceId)

\* C15: when getEventById finds an event of a tenant the caller is not
\* entitled to, or getServiceTimeline is asked for such a tenant, the audit
\* entry emitted is a denial, an unsuccessful outcome, while the value returned
\* is the one of the not-found or empty case.
C15_RefusalAuditedAsDenial ==
  (Refused /\ Len(auditTrail) = 1)
    => /\ ~auditTrail[1].success
       /\ RecordCount(G) = 0


\* ------------------------------------------------ claims of the lastUsedAt write
\* Call c resolves in this step to a record that has not expired.
ResolvesValid(c) ==
  /\ calls[c].pc = "lookup"
  /\ calls'[c].pc = "resolved"
  /\ calls'[c].token # {}
  /\ AuthEntry(c)'.action = "authentication_success"

\* C16: the step in which a call resolves successfully issues the lastUsedAt
\* write and returns the context without waiting for it (the write is still
\* pending when the context is there); the step in which a write settles, stored
\* or failed, changes no call and no audit entry, and a write that fails leaves
\* a line in the error log.
C16_LastUsedAtFireAndForget ==
  [][ /\ \A c \in CallIds :
           ResolvesValid(c)
             => /\ [call |-> c, id |-> The(calls'[c].token).id, at |-> now]
                     \in pendingWrites' \ pendingWrites
                /\ The(calls'[c].ctx).callerId = The(calls'[c].token).id
                /\ The(calls'[c].ctx).authorizedServices =
                     The(calls'[c].token).authorizedServices
      /\ \A w \in pendingWrites \ pendingWrites' :
           /\ calls' = calls
           /\ auditTrail' = auditTrail
           /\ \/ /\ apiTokens'[w.id].lastUsedAt = Some(w.at)
                 /\ errorLog' = errorLog
              \/ /\ apiTokens' = apiTokens
                 /\ errorLog' = Append(errorLog,
                      <<"Failed to update lastUsedAt for token:", w.id>>)
    ]_vars

\* The write of a call failed and was logged, and the call went on to return
\* records under the entitlement set of its record.
C16_Witness ==
  \E c \in CallIds :
    /\ calls[c].pc = "returned"
    /\ calls[c].token # {}
    /\ The(calls[c].ctx).authorizedServices = <<"*">>
    /\ RecordCount(calls[c]) > 0
    /\ errorLog = <<<<"Failed to update lastUsedAt for token:", "t1">>>>
    /\ apiTokens["t1"].lastUsedAt = None


\* ------------------------------------------------ claims of failing collaborators
\* The outcomes the operation the gate was called with has, on the same store,
\* input and context, when the collaborators are as db and emb say.
GateOutcomes(up, emb) ==
  LET db == Db(up)
  IN  CASE G.op = "search" /\ G.impl = "events" ->
             searchEvents(db, emb, GInput, GCtx)
        [] G.op = "search" /\ G.impl = "events0" ->
             searchEvents0(db, emb, GInput, GCtx)
        [] G.op = "get_details" /\ G.impl = "events" ->
             getEventById(db, GInput.eventId, GCtx)
        [] G.op = "get_details" /\ G.impl = "events0" ->
             getEventById0(db, GInput.eventId, GCtx)
        [] G.op = "get_timeline" /\ G.impl = "events" ->
             getServiceTimeline(db, GInput.serviceId, GInput.startDate,
                                GInput.endDate, GInput.limit, GCtx)
        [] G.op = "get_timeline" /\ G.impl = "events0" ->
             getServiceTimeline0(db, GInput.serviceId, GInput.startDate,
                                 GInput.endDate, GInput.limit, GCtx)
EmbeddingsUp == {e \in Embeddings : e.up}
EmbeddingsDown == {e \in Embeddings : ~e.up}
Semantic == G.op = "search" /\ GInput.useSemanticSearch

\* C17: when the storage read of a Query Gate operation fails, or embedding
\* generation in similarity search fails, the operation fails and returns no
\* records, and the failing collaborator was called exactly once.  A call that
\* failed made no more than one call to each collaborator.
C17_CollaboratorFailureNoRetry ==
  G.op \in ReadOps
    => /\ G.status = "error"
            => /\ G.value = None
               /\ G.reads <= 1 /\ G.embeds <= 1 /\ G.reads + G.embeds >= 1
       /\ \A emb \in EmbeddingsUp : \A o \in GateOutcomes(FALSE, emb) :
            \/ o.status = "error" /\ o.value = None /\ o.reads = 1
            \/ o.status = "ok" /\ o.reads = 0
       /\ Semantic
            => \A emb \in EmbeddingsDown : \A up \in BOOLEAN :
                 \A o \in GateOutcomes(up, emb) :
                   o.status = "error" /\ o.value = None
                     /\ o.embeds = 1 /\ o.reads = 0

\* A similarity search failed on its embedding request, made once, before any
\* storage read.
C17_Witness ==
  /\ Semantic
  /\ G.impl = "events"
  /\ G.status = "error"
  /\ G.embeds = 1
  /\ G.reads = 0
  /\ G.value = None
  /\ events # {}


\* ------------------------------------------------ claims of the fallback
\* The Credential Records the credential t resolves to.
RecordsOf(t) ==
  {apiTokens[k] : k \in {j \in DOMAIN apiTokens :
                           apiTokens[j].tokenHash = hashToken(t)}}

\* C18: a call that carries an authToken is resolved with it, and
\* PEI_AUTH_TOKEN is used only by a call that carries none: the record a call
\* with its own credential matched is the record of that credential, and unless
\* the two credentials are the same its context has neither the id of the
\* fallback's record nor entitlements other than those of its own record.
C18_PerCallTokenWins ==
  \A c \in CallIds :
    calls[c].pc # "idle"
      => /\ ~Truthy(calls[c].own) => calls[c].authToken = env
         /\ Truthy(calls[c].own)
              => /\ calls[c].authToken = calls[c].own
                 /\ calls[c].tokenHash = Some(hashToken(The(calls[c].own)))
                 /\ {r.id : r \in calls[c].token}
                      \subseteq {r.id : r \in RecordsOf(The(calls[c].own))}
                 /\ (IsSome(calls[c].ctx) /\ IsSome(env)
                       /\ The(env) # The(calls[c].own))
                      => /\ \A r \in RecordsOf(The(env)) :
                              The(calls[c].ctx).callerId # r.id
                         /\ \/ The(calls[c].ctx).authorizedServices = <<>>
                            \/ \E r \in RecordsOf(The(calls[c].own)) :
                                 The(calls[c].ctx).authorizedServices =
                                   r.authorizedServices

\* With the wildcard credential as fallback, a call presenting pei_b resolved
\* to the record of pei_b and its single tenant.
C18_Witness ==
  \E c \in CallIds :
    /\ env = Some("pei_admin")
    /\ calls[c].own = Some("pei_b")
    /\ Matched(c)
    /\ The(calls[c].ctx).callerId = "t3"
    /\ The(calls[c].ctx).authorizedServices = <<"svc-b">>


\* ------------------------------------------------ claims of keyword search
\* text contains q as a contiguous run of characters.
Contains(text, q) ==
  \E i \in 1..(Len(text) + 1) :
    /\ i + Len(q) - 1 <= Len(text)
    /\ SubSeq(text, i, i + Len(q) - 1) = q
ContainsFolded(column, q) ==
  IsSome(column) /\ Contains(Lower(The(column)), Lower(q))
\* A LIKE pattern is malformed when it ends in its escape character.
RECURSIVE WellFormedPattern(_)
WellFormedPattern(pat) ==
  IF pat = <<>> THEN TRUE
  ELSE IF Head(pat) = Backslash
    THEN Len(pat) >= 2 /\ WellFormedPattern(Tail(Tail(pat)))
  ELSE WellFormedPattern(Tail(pat))

\* C19: for every query text over an alphabet with '%', '_' and '\', keyword
\* search returns the stored event iff its title or its description contains
\* the query text literally, case folded, and the pattern built from the query
\* text is well formed.
C19_KeywordLiteralSubstring ==
  (G.op = "search" /\ G.status = "ok")
    => /\ \A e \in events :
            (\E i \in 1..Len(G.value) : G.value[i].id = e.id)
              <=> \/ ContainsFolded(Some(e.title), GInput.query)
                  \/ ContainsFolded(e.description, GInput.query)
       /\ WellFormedPattern(<<"%">> \o escapeLikePattern(GInput.query)
                              \o <<"%">>)

\* The query text '\' followed by '%' found nothing in a title that has the
\* backslash followed by another character.
C19_Witness ==
  /\ G.op = "search" /\ G.status = "ok"
  /\ GInput.query = <<Backslash, "%">>
  /\ \E e \in events : e.title = <<Backslash, "a">> /\ e.description = None
  /\ G.value = <<>>


\* ------------------------------------------------ claims of order and limit
\* The stored events a keyword search or a timeline call may return: those of
\* tenants the caller is entitled to that pass the filters of the call.
PermittedMatching ==
  IF G.op = "search"
  THEN { e \in events :
           /\ Entitled(e.serviceId)
           /\ OptionalFilters(e, GInput)
           /\ \/ ContainsFolded(Some(e.title), GInput.query)
              \/ ContainsFolded(e.description, GInput.query) }
  ELSE { e \in events :
           /\ Entitled(e.serviceId)
           /\ e.serviceId = GInput.serviceId
           /\ IsSome(GInput.startDate) => e.occurredAt >= The(GInput.startDate)
           /\ IsSome(GInput.endDate) => e.occurredAt <= The(GInput.endDate) }
OrderedCall ==
  /\ G.impl = "events" /\ G.status = "ok"
  /\ \/ G.op = "search" /\ ~GInput.useSemanticSearch
     \/ G.op = "get_timeline"

\* C20: keywordSearch and getServiceTimeline return permitted matching records
\* only, each once, in non-increasing occurredAt order, exactly
\* min(limit, number of permitted matching records) of them, and none of them
\* is older than a permitted matching record that was left out.
C20_RecencyOrderAndLimit ==
  OrderedCall
    => LET v == G.value
           M == PermittedMatching
           left == {e \in M : \A i \in 1..Len(v) : v[i].id # e.id}
       IN  /\ Len(v) = Min(GInput.limit, Cardinality(M))
           /\ \A i \in 1..Len(v) : \E e \in M : v[i] = Row(e)
           /\ \A i, j \in 1..Len(v) :
                i < j => /\ v[i].id # v[j].id
                         /\ v[i].occurredAt >= v[j].occurredAt
           /\ \A e \in left : \A i \in 1..Len(v) :
                v[i].occurredAt >= e.occurredAt

\* Two events of svc-a match the query text, limit is 1: the newer one came
\* back and the older one was left out.
C20_Witness ==
  /\ OrderedCall
  /\ G.op = "search"
  /\ GInput.limit = 1
  /\ GInput.query = <<"a">>
  /\ Cardinality(PermittedMatching) >= 2
  /\ Len(G.value) = 1
  /\ G.value[1].id = "e1"
  /\ \E e \in PermittedMatching : e.id = "e3"


\* ------------------------------------------------ claims of the audit trail, II
AuditFields ==
  {"type", "timestamp", "level", "action", "callerId", "callerName", "success",
   "resourceType", "resourceId", "serviceId", "message", "metadata"}
\* The entry a resolution step of call c hands to auditLog.
SuppliedByResolution(c) ==
  IF calls[c].pc = "idle"
  THEN resolveMissingToken.audits[1]
  ELSE resolveFoundToken(calls'[c].token, The(calls[c].tokenHash), now).audits[1]

\* C21: the audit trail is append-only.  Every step leaves the entries already
\* emitted as they are and in place; an entry a step appends is complete, has
\* type AUDIT and the timestamp of the moment of the step, and the entry a
\* resolution appends carries every field the resolver supplied, unchanged.
C21_AuditTrailAppendOnly ==
  [][ /\ Len(auditTrail') >= Len(auditTrail)
      /\ SubSeq(auditTrail', 1, Len(auditTrail)) = auditTrail
      /\ \A i \in (Len(auditTrail) + 1)..Len(auditTrail') :
           /\ DOMAIN auditTrail'[i] = AuditFields
           /\ auditTrail'[i].type = "AUDIT"
           /\ auditTrail'[i].timestamp = now
      /\ \A c \in CallIds :
           (calls[c].pc \in {"idle", "lookup"} /\ calls'[c].pc = "resolved")
             => /\ Len(auditTrail') = Len(auditTrail) + 1
                /\ \A f \in DOMAIN SuppliedByResolution(c) :
                     auditTrail'[Len(auditTrail')][f] =
                       SuppliedByResolution(c)[f]
    ]_vars

\* An authentication entry emitted at time 1 is still first, unchanged, after an
\* access entry was appended at time 2.
C21_Witness ==
  /\ Len(auditTrail) >= 2
  /\ auditTrail[1].action = "authentication_failure"
  /\ auditTrail[1].timestamp = 1
  /\ auditTrail[2].action = "event_access_search"
  /\ auditTrail[2].timestamp = 2


\* ------------------------------------------------ claims of the tool call
AccessActions ==
  {"event_access_search", "event_access_get_details",
   "event_access_get_timeline", "event_access_get_impact_summary"}
\* The Query Gate operation of call c has started.
GateStarted(c) == calls[c].op \in ReadOps

\* C22: in a tool call whose Query Gate operation has started the Credential
\* Resolver has run once (one lookup at most, one authentication entry) and
\* has completed; once the operation has returned, its access entry is in the
\* audit trail, after the authentication entry of the same call.
C22_ResolveThenGateThenReturn ==
  \A c \in CallIds :
    GateStarted(c)
      => /\ IsSome(calls[c].ctx)
         /\ calls[c].lookups <= 1
         /\ calls[c].authAudits = 1
         /\ AuthEntry(c).action \in AuthActions
         /\ calls[c].pc = "returned"
              => /\ IsSome(calls[c].accessAt)
                 /\ The(calls[c].authAt) < The(calls[c].accessAt)
                 /\ auditTrail[The(calls[c].accessAt)].action \in AccessActions
                 /\ auditTrail[The(calls[c].accessAt)].callerId =
                      The(calls[c].ctx).callerId

\* Two calls interleaved: the second resolved between the resolution and the
\* operation of the first, and each access entry follows its own call's
\* authentication entry.
C22_Witness ==
  /\ calls[1].pc = "returned" /\ calls[2].pc = "returned"
  /\ calls[1].authAt = Some(1) /\ calls[2].authAt = Some(2)
  /\ calls[1].accessAt = Some(4) /\ calls[2].accessAt = Some(3)


\* The tenants whose events the credential call c carried entitles it to: those
\* of the record its digest matched, none without a match.
OwnTenants(c) ==
  IF ~Matched(c) THEN {}
  ELSE IF Wildcard \in Range(tokenRecordOf(c).authorizedServices) THEN Tenants
  ELSE Range(tokenRecordOf(c).authorizedServices)
\* The callerId the credential call c carried stands for.
OwnCallerId(c) ==
  IF ~Truthy(calls[c].authToken) THEN "anonymous"
  ELSE IF Matched(c) THEN tokenRecordOf(c).id
  ELSE "invalid"
ReturnedTenancy(call) ==
  IF call.op = "get_details" THEN {e.serviceId : e \in call.value}
  ELSE Tenancy(call.value)

\* C23: whatever the interleaving of the calls, a call that returned holds only
\* records of tenants its own credential entitles it to, runs with the context
\* of its own credential (the record matched is the one whose digest is that of
\* the credential it carried), and its access audit entry carries its own
\* callerId.
C23_ConcurrentCallsIsolated ==
  \A c \in CallIds :
    (GateStarted(c) /\ calls[c].pc = "returned")
      => /\ ReturnedTenancy(calls[c]) \subseteq OwnTenants(c)
         /\ Matched(c)
              => tokenRecordOf(c).tokenHash = hashToken(The(calls[c].authToken))
         /\ The(calls[c].ctx).callerId = OwnCallerId(c)
         /\ auditTrail[The(calls[c].accessAt)].callerId = OwnCallerId(c)

\* Two calls with different credentials, both resolved before either operation
\* ran: the administrator's search returns a svc-a event, the svc-b caller's
\* search only svc-b events, and each access entry carries its call's callerId.
C23_Witness ==
  /\ calls[1].pc = "returned" /\ calls[2].pc = "returned"
  /\ calls[1].op = "search" /\ calls[2].op = "search"
  /\ OwnCallerId(1) = "t1" /\ OwnCallerId(2) = "t3"
  /\ The(calls[1].authAt) < The(calls[2].accessAt)
  /\ The(calls[2].authAt) < The(calls[1].accessAt)
  /\ "svc-a" \in Tenancy(calls[1].value)
  /\ Tenancy(calls[2].value) = {"svc-b"}
  /\ auditTrail[The(calls[1].accessAt)].callerId = "t1"
  /\ auditTrail[The(calls[2].accessAt)].callerId = "t3"


\* ------------------------------------------------ claims of the impact summary
Summary == G.op = "get_impact_summary" /\ G.status = "ok"
InRange(e) ==
  /\ e.serviceId = GInput.serviceId
  /\ IsSome(GInput.startDate) => e.occurredAt >= The(GInput.startDate)
  /\ IsSome(GInput.endDate) => e.occurredAt <= The(GInput.endDate)
\* What a caller entitled to the tenant is answered when the store is empty.
EntitledEmptyValues ==
  { o.value : o \in UNION { generateImpactSummary([rows |-> {}, up |-> TRUE],
                              llm, GInput,
                              [GCtx EXCEPT !.authorizedServices =
                                             <<GInput.serviceId>>]) :
                            llm \in Summarizers } }

\* C24: generateImpactSummary for a tenant the caller is not entitled to
\* returns the message an entitled caller gets when the tenant has no event in
\* range, the 'No significant events found' one, and in neither case is any
\* event handed to the summarization collaborator.
C24_RefusalLooksLikeNoEvents ==
  (Summary /\ (~Entitled(GInput.serviceId) \/ ~\E e \in events : InRange(e)))
    => /\ G.value = NoEventsMessage(GInput.serviceId)
       /\ EntitledEmptyValues = {G.value}
       /\ G.summarized = None

\* The tenant has events in range and the caller is not entitled to it.
C24_Witness ==
  /\ Summary
  /\ GCtx.authorizedServices = <<"svc-b">>
  /\ GInput.serviceId = "svc-a"
  /\ \E e \in events : InRange(e)
  /\ G.value = NoEventsMessage("svc-a")
  /\ G.summarized = None


Priority(e) == SEVERITY_PRIORITY[e.severity]
\* The events handed to the summarization collaborator.
Summarized == The(G.summarized)
LeftOut == {Row(e) : e \in {x \in events : InRange(x)}} \ Range(Summarized)

\* C25: when the tenant has more events in range than maxEvents, the events
\* summarized are maxEvents in number and the most significant ones: no event
\* left out has a higher severity than one that was included.
C25_MostSignificantKept ==
  (Summary /\ IsSome(G.summarized)
     /\ Cardinality({e \in events : InRange(e)}) > GInput.maxEvents)
    => /\ Len(Summarized) = GInput.maxEvents
       /\ \A x \in LeftOut : \A y \in Range(Summarized) :
            Priority(x) <= Priority(y)

\* The timelines getServiceTimeline may have returned to the call.
Timelines ==
  { t.value : t \in getServiceTimeline(Db(TRUE), GInput.serviceId,
                      GInput.startDate, GInput.endDate, GInput.maxEvents,
                      GCtx) }

\* C26: the list handed to the summarizer is a permutation of the list
\* getServiceTimeline returned, in the order critical > error > warning > info
\* and most recent first within one severity; a critical event, when there is
\* one, is first.
C26_SummarizedInPriorityOrder ==
  (Summary /\ IsSome(G.summarized))
    => /\ \E t \in Timelines :
            /\ Len(t) = Len(Summarized)
            /\ Range(t) = Range(Summarized)
       /\ \A i, j \in DOMAIN Summarized :
            i < j => \/ Priority(Summarized[i]) > Priority(Summarized[j])
                     \/ /\ Priority(Summarized[i]) = Priority(Summarized[j])
                        /\ Summarized[i].occurredAt >= Summarized[j].occurredAt
       /\ (\E i \in DOMAIN Summarized : Summarized[i].severity = "critical")
            => Summarized[1].severity = "critical"

\* A critical event older than the two others of the timeline goes first, and
\* the error goes before the info of the same time.
C26_Witness ==
  /\ Summary /\ IsSome(G.summarized)
  /\ Len(Summarized) = 3
  /\ Summarized[1].id = "i1" /\ Summarized[2].id = "i3"
  /\ Summarized[3].id = "i2"


ResolutionFails(c) ==
  /\ calls[c].pc \in {"idle", "lookup"}
  /\ \/ calls'[c].pc = "failed"
     \/ /\ calls'[c].pc = "resolved"
        /\ AuthEntry(c)'.action = "authentication_failure"
\* Call c resolved to the record k, successfully.
ResolvedTo(c, k) ==
  /\ Matched(c)
  /\ tokenRecordOf(c).id = k
  /\ IsSome(calls[c].authAt)
  /\ AuthEntry(c).action = "authentication_success"

\* C28: no step of a resolution or of a Query Gate operation changes an Event
\* Record, adds or removes a Credential Record, or changes a field of a
\* Credential Record other than lastUsedAt; lastUsedAt changes only on the
\* record a successful resolution matched, a write is only ever issued by such
\* a resolution, and a resolution that fails issues and stores nothing.
C28_OnlyLastUsedAtWritten ==
  [][ /\ events' = events
      /\ DOMAIN apiTokens' = DOMAIN apiTokens
      /\ \A k \in DOMAIN apiTokens :
           /\ [apiTokens'[k] EXCEPT !.lastUsedAt = apiTokens[k].lastUsedAt]
                = apiTokens[k]
           /\ apiTokens'[k].lastUsedAt # apiTokens[k].lastUsedAt
                => \E c \in CallIds : ResolvedTo(c, k)
      /\ \A w \in pendingWrites' \ pendingWrites : ResolvedTo(w.call, w.id)'
      /\ \A c \in CallIds :
           ResolutionFails(c)
             => pendingWrites' = pendingWrites /\ apiTokens' = apiTokens
    ]_vars

\* One call resolved the administrator's credential and its lastUsedAt was
\* stored; the other presented an expired credential, whose record was left
\* alone; the first went on to read events, and the store is as it was.
C28_Witness ==
  /\ ResolvedTo(1, "t1")
  /\ IsSome(apiTokens["t1"].lastUsedAt)
  /\ Matched(2) /\ tokenRecordOf(2).id = "t3"
  /\ calls[2].pc = "resolved"
  /\ AuthEntry(2).action = "authentication_failure"
  /\ apiTokens["t3"] = SeedTokens["t3"]
  /\ pendingWrites = {}
  /\ calls[1].pc = "returned" /\ RecordCount(calls[1]) > 0
  /\ events = EventCatalogue


RetryDone == retryRun.pc \in {"returned", "rejected"}
Failures == {i \in DOMAIN retryRun.history : ~retryRun.history[i].ok}
LastOutcome == retryRun.history[Len(retryRun.history)]
\* fn is called at most maxRetries times; a success is the last call made and
\* its value is what is returned; the waits double from baseDelayMs, and there
\* is one between consecutive attempts and none after the last.
RetryCallsAndWaits ==
  /\ Len(retryRun.history) <= retryRun.maxRetries
  /\ \A i \in DOMAIN retryRun.history :
       retryRun.history[i].ok
         => /\ i = Len(retryRun.history)
            /\ retryRun.pc = "returned"
            /\ retryRun.result = Some(retryRun.history[i].v)
  /\ retryRun.pc = "returned" => LastOutcome.ok
  /\ \A i \in DOMAIN retryRun.sleeps :
       /\ i = 1 => retryRun.sleeps[i] = retryRun.baseDelayMs
       /\ i > 1 => retryRun.sleeps[i] = 2 * retryRun.sleeps[i - 1]
  /\ (RetryDone /\ retryRun.history # <<>>)
       => Len(retryRun.sleeps) = Len(retryRun.history) - 1
  /\ retryRun.pc = "sleeping"
       => Len(retryRun.sleeps) = Len(retryRun.history)
            /\ Len(retryRun.history) < retryRun.maxRetries
\* retry rejected after maxRetries >= 1 attempts, all of which failed.
RetryExhausted ==
  /\ retryRun.pc = "rejected"
  /\ retryRun.maxRetries >= 1

\* C30 as stated: the calls and waits are as above and, after maxRetries
\* consecutive failures, retry rejects with the very value the last call
\* rejected with.
C30_RetryRejectsWithLastRejection ==
  /\ RetryCallsAndWaits
  /\ RetryExhausted
       => /\ Cardinality(Failures) = retryRun.maxRetries
          /\ retryRun.result = Some(LastOutcome.v)

\* C30, amended: retry terminates; fn is called at most maxRetries times; the
\* first success is returned without another call; after maxRetries consecutive
\* failures (maxRetries >= 1) retry rejects with the last rejection when that is
\* an Error and otherwise with a new Error whose message is its string form;
\* the waits between attempts double and there is none after the last attempt.
C30_RetryTerminatesBounded ==
  /\ [](/\ RetryCallsAndWaits
        /\ RetryExhausted
             => /\ Cardinality(Failures) = retryRun.maxRetries
                /\ retryRun.result = Some(AsError(LastOutcome.v)))
  /\ <>RetryDone

\* Three attempts failed, with two waits of 100 and 200 ms; the last rejection
\* was not an Error and retry rejected with an Error of the same text.
C30_Witness ==
  /\ retryRun.pc = "rejected"
  /\ retryRun.maxRetries = 3
  /\ Len(retryRun.history) = 3
  /\ retryRun.sleeps = <<100, 200>>
  /\ LastOutcome.v = [isError |-> FALSE, text |-> "boom"]
  /\ retryRun.result = Some([isError |-> TRUE, text |-> "boom"])


=============================================================================
